---------------------------- MODULE Spec2Model ----------------------------
(***************************************************************************)
(* A model of the WhatsOnZwift workout exporter content script             *)
(* (src/content.js): the duration parser parseDuration, the segment        *)
(* classifier parseSegment, the serializer generateZWO, and the download    *)
(* button of the page: addDownloadButton and its click handler.            *)
(*                                                                         *)
(* Texts are sequences of one-character strings, so that the regular       *)
(* expressions of the source are matched character by character.           *)
(* A JavaScript number is a record [nan, v]: v counts thousandths          *)
(* (Scale), which is exact for every numeral the inputs below hold (at     *)
(* most three fraction digits are kept by parseFloat here).                *)
(***************************************************************************)
EXTENDS Integers, Sequences, FiniteSets, TLC

VARIABLES
    pc,          \* "call" (arguments set), "forEach" (in the loop of generateZWO),
                 \* "done" (returned), "thrown" (ended by an exception); for the
                 \* page: "idle" (no script running) and the places of the
                 \* click handler
    phrase,      \* how the argument of parseDuration was written (its pieces)
    durationStr, \* the argument of parseDuration
    duration,    \* the value parseDuration returned
    fragment,    \* how the element given to parseSegment was written (its pieces)
    element,     \* the argument of parseSegment: [text, spans]
    segment,     \* the value parseSegment returned: null or a record
    workoutName, \* the first argument of generateZWO
    segments,    \* the second argument of generateZWO
    index,       \* the index the forEach of generateZWO has come to
    xml,         \* the text generateZWO has written, and returns
    href,        \* window.location.href
    page,        \* the document the content script runs in
    buttons,     \* the download buttons in the workout container, in order
    parseWarnings, \* the counter of the click handler
    calls,       \* what the running click handler has called so far, in order
    timers       \* the buttons a setTimeout of the click handler is pending for

vars == <<pc, phrase, durationStr, duration, fragment, element, segment,
          workoutName, segments, index, xml,
          href, page, buttons, parseWarnings, calls, timers>>

\* The state of the page and of its buttons.
browser == <<page, buttons, parseWarnings, calls, timers>>

---------------------------------------------------------------------------
(* Bounds of the model.                                                    *)

\* Whole numbers 0..MaxCount (and their multiples by 15) are written in phrases.
MaxCount == 2

\* An element holds 0..MaxSpans annotation spans.
MaxSpans == 3

\* A workout holds 0..MaxSegments segments.
MaxSegments == 3

---------------------------------------------------------------------------
(* Characters and strings.                                                 *)

Digits == <<"0", "1", "2", "3", "4", "5", "6", "7", "8", "9">>

IsDigit(c) == \E i \in 1..Len(Digits) : Digits[i] = c

DigitVal(c) == (CHOOSE i \in 1..Len(Digits) : Digits[i] = c) - 1

\* \s of the regular expressions (the characters of it that the inputs hold).
IsSpace(c) == c \in {" ", "\n", "\t"}

\* The character classes the regular expressions use: \d, [\d.] and \s.
InClass(c, cls) ==
    CASE cls = "d"  -> IsDigit(c)
      [] cls = "d." -> IsDigit(c) \/ c = "."
      [] cls = "s"  -> IsSpace(c)

\* The i flag: a letter compares by its lower-case form.
Lower(c) ==
    CASE c = "A" -> "a" [] c = "B" -> "b" [] c = "C" -> "c" [] c = "D" -> "d"
      [] c = "E" -> "e" [] c = "F" -> "f" [] c = "G" -> "g" [] c = "H" -> "h"
      [] c = "I" -> "i" [] c = "J" -> "j" [] c = "K" -> "k" [] c = "L" -> "l"
      [] c = "M" -> "m" [] c = "N" -> "n" [] c = "O" -> "o" [] c = "P" -> "p"
      [] c = "Q" -> "q" [] c = "R" -> "r" [] c = "S" -> "s" [] c = "T" -> "t"
      [] c = "U" -> "u" [] c = "V" -> "v" [] c = "W" -> "w" [] c = "X" -> "x"
      [] c = "Y" -> "y" [] c = "Z" -> "z" [] OTHER -> c

\* A greedy run x+ or x* of class cls from position i: the position after it.
\* Every run in the source's expressions is followed by a literal outside the
\* class, so the longest run is the only one a match can use.
SkipClass(s, i, cls) ==
    CHOOSE j \in i..(Len(s) + 1) :
        /\ \A k \in i..(j - 1) : InClass(s[k], cls)
        /\ (j = Len(s) + 1 \/ ~InClass(s[j], cls))

\* The literal lit (written in lower case) at position i, under the i flag.
LitAt(s, i, lit) ==
    /\ i >= 1
    /\ i + Len(lit) - 1 <= Len(s)
    /\ \A k \in 1..Len(lit) : Lower(s[i + k - 1]) = lit[k]

\* String.prototype.includes: the literal as written, letter case included.
Includes(s, lit) ==
    \E i \in 1..(Len(s) - Len(lit) + 1) :
        \A k \in 1..Len(lit) : s[i + k - 1] = lit[k]

MIN == <<"m", "i", "n">>
SEC == <<"s", "e", "c">>
RPM == <<"r", "p", "m">>

---------------------------------------------------------------------------
(* Numbers.                                                                *)

Scale == 10 * 10 * 10

Num(v) == [nan |-> FALSE, v |-> v]
NaN == [nan |-> TRUE, v |-> 0]

\* A whole number n.
Whole(n) == Num(n * Scale)

\* null, undefined and a string value.
NULL == [t |-> "null"]
UNDEFINED == [t |-> "undefined"]
Str(s) == [t |-> "string", s |-> s]

isNaN(x) == x.nan

NumAdd(x, y) == IF x.nan \/ y.nan THEN NaN ELSE Num(x.v + y.v)

\* x * k and x / k for a whole k.
NumMul(x, k) == IF x.nan THEN NaN ELSE Num(x.v * k)
NumDiv(x, k) == IF x.nan THEN NaN ELSE Num(x.v \div k)

RECURSIVE DigitsToInt(_)
DigitsToInt(ds) ==
    IF Len(ds) = 0 THEN 0
    ELSE 10 * DigitsToInt(SubSeq(ds, 1, Len(ds) - 1)) + DigitVal(ds[Len(ds)])

\* parseInt(str, 10) of a capture of (\d+).
parseInt(ds) == Whole(DigitsToInt(ds))

\* Thousandths written by the fraction digits fs.
FracVal(fs) ==
    LET kept == SubSeq(fs, 1, IF Len(fs) < 3 THEN Len(fs) ELSE 3)
        pad == CASE Len(kept) = 0 -> 0
                 [] Len(kept) = 1 -> 100
                 [] Len(kept) = 2 -> 10
                 [] OTHER -> 1
    IN DigitsToInt(kept) * pad

\* parseFloat: leading white space, a sign, then the longest prefix that is a
\* decimal literal (digits, then "." and digits); NaN when it holds no digit.
\* What follows the literal is ignored ("1.2.3" is 1.2, "." is NaN).
\* Exponents and Infinity are not written by any input of this model.
Magnitude(ip, fp) ==
    IF Len(ip) = 0 /\ Len(fp) = 0 THEN NaN
    ELSE Num(DigitsToInt(ip) * Scale + FracVal(fp))

\* The fraction digits after a point at position j, <<>> when none is there.
FractionAt(str, j) ==
    IF j <= Len(str) /\ str[j] = "."
    THEN SubSeq(str, j + 1, SkipClass(str, j + 1, "d") - 1)
    ELSE <<>>

\* The literal whose whole digits are str[i..j-1].
UnsignedFloatAt(str, i, j) == Magnitude(SubSeq(str, i, j - 1), FractionAt(str, j))
UnsignedFloat(str, i) == UnsignedFloatAt(str, i, SkipClass(str, i, "d"))

Negate(x) == IF x.nan THEN NaN ELSE Num(0 - x.v)

\* The signed literal at position b, the first that is no white space.
SignedFloat(str, b) ==
    IF b <= Len(str) /\ str[b] = "-" THEN Negate(UnsignedFloat(str, b + 1))
    ELSE IF b <= Len(str) /\ str[b] = "+" THEN UnsignedFloat(str, b + 1)
    ELSE UnsignedFloat(str, b)

parseFloat(str) == SignedFloat(str, SkipClass(str, 1, "s"))

\* Math.round: the nearest whole number, a half rounded towards +infinity.
MathRoundFloor(x) == IF x.nan THEN NaN ELSE Num((x.v \div Scale) * Scale)
MathRound(x) ==
    IF x.nan THEN NaN ELSE Num(((2 * x.v + Scale) \div (2 * Scale)) * Scale)

---------------------------------------------------------------------------
(* parseDuration.                                                          *)
(* A match is <<>> (null) or the sequence of its captures [1], [2], ...    *)

Min(S) == CHOOSE x \in S : \A y \in S : x <= y
Max(S) == CHOOSE x \in S : \A y \in S : y <= x

\* The run of class cls that starts at i, as the capture of a match.
RunCapture(s, i, cls) == <<SubSeq(s, i, SkipClass(s, i, cls) - 1)>>

\* The capture of the leftmost match, given the positions where the
\* expression matches; the capture is the run of cls at that position.
LeftmostCapture(s, starts, cls) ==
    IF starts = {} THEN <<>> ELSE RunCapture(s, Min(starts), cls)

\* /([\d.]+)\s*unit/i tried at position i.
UnitMatchAtAnyWord(s, i, unit) == SkipClass(s, i, "d.") > i
UnitMatchAt(s, i, unit) ==
    /\ SkipClass(s, i, "d.") > i
    /\ LitAt(s, SkipClass(s, SkipClass(s, i, "d."), "s"), unit)

\* s.match(/([\d.]+)\s*unit/i)
UnitMatch(s, unit) ==
    LeftmostCapture(s, {i \in 1..Len(s) : UnitMatchAt(s, i, unit)}, "d.")

\* !durationStr
Falsy(x) == x.t \in {"null", "undefined"} \/ (x.t = "string" /\ Len(x.s) = 0)

\* The test that sends a phrase to the combined branch.
HasBothUnits(s) == Includes(s, MIN) /\ Includes(s, SEC)

\* match && match[1] ? parseFloat(match[1]) : 0
FloatOrZero(match) == IF match # <<>> THEN parseFloat(match[1]) ELSE Whole(0)

\* The combined branch, "7min 30sec": (minutes * 60) + seconds.
CombinedDurationNoSeconds(minMatch, secMatch) ==
    NumMul(FloatOrZero(minMatch), 60)
CombinedDuration(minMatch, secMatch) ==
    NumAdd(NumMul(FloatOrZero(minMatch), 60), FloatOrZero(secMatch))

\* The simple branch: "7min" or "30sec".
SimpleDuration(minMatch, secMatch) ==
    IF minMatch # <<>> THEN NumMul(parseFloat(minMatch[1]), 60)
    ELSE FloatOrZero(secMatch)

\* The last lines: 0 for a value that is not a number or is negative, else
\* the value rounded.
RoundedDuration(d) == IF isNaN(d) \/ d.v < 0 THEN Whole(0) ELSE MathRound(d)

MatchedDuration(s, minMatch, secMatch) ==
    RoundedDuration(IF HasBothUnits(s) THEN CombinedDuration(minMatch, secMatch)
                    ELSE SimpleDuration(minMatch, secMatch))

parseDuration(str) ==
    IF Falsy(str) THEN Whole(0)
    ELSE MatchedDuration(str.s, UnitMatch(str.s, MIN), UnitMatch(str.s, SEC))

---------------------------------------------------------------------------
(* The regular expressions of parseSegment.  A position is an index into   *)
(* the text; a matcher takes the position to match at and gives the        *)
(* position after the match, or 0 when there is none (and when it is       *)
(* handed 0, so that matchers chain).                                      *)

AT == <<"@">>
COMMA == <<",">>
EX == <<"x">>
FROM == <<"f", "r", "o", "m">>
FREE == <<"f", "r", "e", "e">>
RIDE == <<"r", "i", "d", "e">>
BR == <<"<", "b", "r">>
SLASH == <<"/">>
GT == <<">">>

\* The first of two alternatives that matches.
OrElse(a, b) == IF a # 0 THEN a ELSE b

\* cls+ and cls*
AtLeastOne(i, j) == IF j > i THEN j ELSE 0
Cls1(s, i, cls) == IF i = 0 THEN 0 ELSE AtLeastOne(i, SkipClass(s, i, cls))
Cls0(s, i, cls) == IF i = 0 THEN 0 ELSE SkipClass(s, i, cls)

\* A literal, under the i flag.
Lit(s, i, lit) == IF i # 0 /\ LitAt(s, i, lit) THEN i + Len(lit) ELSE 0

\* x? for a literal x.
Opt(s, i, lit) == OrElse(Lit(s, i, lit), i)

\* [\d.]+\s*min, \d+\s*sec and \s+\d+sec
MinutesEnd(s, i) == Lit(s, Cls0(s, Cls1(s, i, "d."), "s"), MIN)
SecondsEnd(s, i) == Lit(s, Cls0(s, Cls1(s, i, "d"), "s"), SEC)
SecondsTailEnd(s, m) == Lit(s, Cls1(s, Cls1(s, m, "s"), "d"), SEC)

\* [\d.]+\s*min(?:\s+\d+sec)? given the end m of its minutes.
MinutesGroupEnd(s, m) == IF m = 0 THEN 0 ELSE OrElse(SecondsTailEnd(s, m), m)

\* ([\d.]+\s*min(?:\s+\d+sec)?|\d+\s*sec) at position i.  The alternatives
\* exclude each other at one position, and what follows the group in every
\* expression (\s+@, \s+from or the end of the expression) cannot match
\* where the optional seconds matched, so the match is the greedy one.
DurationGroupEndNoSeconds(s, i) == OrElse(MinutesEnd(s, i), SecondsEnd(s, i))
DurationGroupEnd(s, i) ==
    OrElse(MinutesGroupEnd(s, MinutesEnd(s, i)), SecondsEnd(s, i))

\* The capture s[i..e-1] of a match that ends at e, when what follows it
\* matched (rest # 0).
CaptureIf(s, i, e, rest) == IF rest # 0 THEN <<SubSeq(s, i, e - 1)>> ELSE <<>>

\* text.match(/(\d+)\s*rpm/i)
CadenceMatch(s) ==
    LeftmostCapture(s, {i \in 1..Len(s) : Lit(s, Cls0(s, Cls1(s, i, "d"), "s"), RPM) # 0}, "d")

\* text.match(/^([\d.]+)\s*(min|sec)\s+free\s+ride/i), with the number
\* ending at j, the unit word at k..u-1.
FreeRideCaptures(s, j, k, u) ==
    IF Lit(s, Cls1(s, Lit(s, Cls1(s, u, "s"), FREE), "s"), RIDE) = 0 THEN <<>>
    ELSE <<SubSeq(s, 1, j - 1), SubSeq(s, k, u - 1)>>
FreeRideUnit(s, j, k) == FreeRideCaptures(s, j, k, OrElse(Lit(s, k, MIN), Lit(s, k, SEC)))
FreeRideMatch(s) == FreeRideUnit(s, Cls1(s, 1, "d."), Cls0(s, Cls1(s, 1, "d."), "s"))

\* \s+@\s+\d+rpm,\s+from\s+ and \s+from\s+ after a group that ends at e.
RampCadenceTail(s, at) ==
    Cls1(s, Lit(s, Cls1(s, Lit(s, Lit(s, Cls1(s, at, "d"), RPM), COMMA), "s"), FROM), "s")
RampTail(s, e) ==
    OrElse(RampCadenceTail(s, Cls1(s, Lit(s, Cls1(s, e, "s"), AT), "s")),
           Cls1(s, Lit(s, Cls1(s, e, "s"), FROM), "s"))

\* text.match(/^(D)\s+@\s+\d+rpm,\s+from\s+/i) || text.match(/^(D)\s+from\s+/i)
RampMatchEnding(s, e) == CaptureIf(s, 1, e, RampTail(s, e))
RampMatch(s) == RampMatchEnding(s, DurationGroupEnd(s, 1))

\* text.match(/^(D)\s+@\s+/i)
SteadyMatchEnding(s, e) == CaptureIf(s, 1, e, Cls1(s, Lit(s, Cls1(s, e, "s"), AT), "s"))
SteadyMatch(s) == SteadyMatchEnding(s, DurationGroupEnd(s, 1))

\* text.match(/^(\d+)x\s+(D)\s+@/i), with the count ending at j, the group
\* at k..e-1.
IntervalCaptures(s, j, k, e) ==
    IF Lit(s, Cls1(s, e, "s"), AT) # 0
    THEN <<SubSeq(s, 1, j - 1), SubSeq(s, k, e - 1)>> ELSE <<>>
IntervalGroup(s, j, k) == IntervalCaptures(s, j, k, DurationGroupEnd(s, k))
IntervalCount(s, j) == IntervalGroup(s, j, Cls1(s, Lit(s, j, EX), "s"))
IntervalMatch(s) == IntervalCount(s, Cls1(s, 1, "d"))

\* text.match(/@\s+(\d+)\s*rpm/i): the expression matches at the "@" at i.
OnCadenceAt(s, i) ==
    Lit(s, Cls0(s, Cls1(s, Cls1(s, Lit(s, i, AT), "s"), "d"), "s"), RPM) # 0
OnCadenceCapture(s, starts) ==
    IF starts = {} THEN <<>>
    ELSE RunCapture(s, SkipClass(s, Min(starts) + 1, "s"), "d")
OnCadenceMatch(s) == OnCadenceCapture(s, {i \in 1..Len(s) : OnCadenceAt(s, i)})

\* offText.match(/(D)/i)
DurationCapture(s, starts) ==
    IF starts = {} THEN <<>>
    ELSE CaptureIf(s, Min(starts), DurationGroupEnd(s, Min(starts)), 1)
DurationMatch(s) == DurationCapture(s, {i \in 1..Len(s) : DurationGroupEnd(s, i) # 0})

\* text.match(/^(D)/i)
LeadingDurationMatch(s) ==
    CaptureIf(s, 1, DurationGroupEnd(s, 1), DurationGroupEnd(s, 1))

\* <br\s*\/?> at position i.
BrEnd(s, i) == Lit(s, Opt(s, Cls0(s, Lit(s, i, BR), "s"), SLASH), GT)

\* text.replace(/<br\s*\/?>|\n/gi, ',')
RECURSIVE NormalizeFrom(_, _)
NormalizeFrom(s, i) ==
    IF i > Len(s) THEN <<>>
    ELSE IF BrEnd(s, i) # 0 THEN COMMA \o NormalizeFrom(s, BrEnd(s, i))
    ELSE IF s[i] = "\n" THEN COMMA \o NormalizeFrom(s, i + 1)
    ELSE <<s[i]>> \o NormalizeFrom(s, i + 1)

\* normalizedText.split(/,\s*/), from position i with the part cur begun.
RECURSIVE SplitFrom(_, _, _)
SplitFrom(s, i, cur) ==
    IF i > Len(s) THEN <<cur>>
    ELSE IF s[i] = "," THEN <<cur>> \o SplitFrom(s, SkipClass(s, i + 1, "s"), <<>>)
    ELSE SplitFrom(s, i + 1, Append(cur, s[i]))

\* parts.join(',')
RECURSIVE Join(_)
Join(parts) ==
    IF Len(parts) = 0 THEN <<>>
    ELSE IF Len(parts) = 1 THEN parts[1]
    ELSE parts[1] \o COMMA \o Join(Tail(parts))

\* String.prototype.trim
TrimTo(s, keep) == IF keep = {} THEN <<>> ELSE SubSeq(s, Min(keep), Max(keep))
Trim(s) == TrimTo(s, {i \in 1..Len(s) : ~IsSpace(s[i])})

---------------------------------------------------------------------------
(* parseSegment.  An element is [text, spans]: its innerText and the        *)
(* data-value strings of its span[data-value] children, in document order.  *)
(* Each rule gives the record it returns, or NULL when control falls        *)
(* through to the next rule.  No call in them can throw on such an element. *)

\* parseFloat(spans[k].dataset.value) / 100, k counted from 0.
SpanPower(spans, k) == NumDiv(parseFloat(spans[k + 1]), 100)

\* match ? parseInt(match[1], 10) : null
IntOrNull(match) == IF match # <<>> THEN parseInt(match[1]) ELSE NULL

\* const cadence = cadenceMatch ? parseInt(cadenceMatch[1], 10) : null
TextCadence(text) == IntOrNull(CadenceMatch(text))

\* if (duration > 0) return { type: 'FreeRide', duration, flatRoad: 1 }
FreeRideRecordAnyDuration(d) ==
    [type |-> "FreeRide", duration |-> d, flatRoad |-> Whole(1)]
FreeRideRecord(d) ==
    IF d.v > 0 THEN [type |-> "FreeRide", duration |-> d, flatRoad |-> Whole(1)]
    ELSE NULL
FreeRideOf(freeRideMatch) ==
    IF freeRideMatch = <<>> THEN NULL
    ELSE FreeRideRecord(parseDuration(Str(freeRideMatch[1] \o freeRideMatch[2])))
FreeRideRuleCarryingCadence(text) ==
    IF FreeRideOf(FreeRideMatch(text)) = NULL THEN NULL
    ELSE [type |-> "FreeRide",
          duration |-> FreeRideOf(FreeRideMatch(text)).duration,
          flatRoad |-> Whole(1), cadence |-> TextCadence(text)]
FreeRideRule(text) == FreeRideOf(FreeRideMatch(text))

\* if (duration > 0 && !isNaN(powerLow) && !isNaN(powerHigh)) return {...}
RampRecord(d, powerLow, powerHigh, cadence) ==
    IF d.v > 0 /\ ~isNaN(powerLow) /\ ~isNaN(powerHigh)
    THEN [type |-> "Ramp", duration |-> d, powerLow |-> powerLow,
          powerHigh |-> powerHigh, cadence |-> cadence]
    ELSE NULL
\* Reading spans[k].dataset of a span that is not there is a TypeError.
TypeError == [t |-> "TypeError"]
RampOfUncaught(rampMatch, spans, cadence) ==
    IF rampMatch = <<>> THEN NULL
    ELSE IF Len(spans) < 2 THEN TypeError
    ELSE RampRecord(parseDuration(Str(rampMatch[1])), SpanPower(spans, 0),
                    SpanPower(spans, 1), cadence)
RampOf(rampMatch, spans, cadence) ==
    IF rampMatch # <<>> /\ Len(spans) = 2
    THEN RampRecord(parseDuration(Str(rampMatch[1])), SpanPower(spans, 0),
                    SpanPower(spans, 1), cadence)
    ELSE NULL
RampRule(text, spans, cadence) == RampOf(RampMatch(text), spans, cadence)

\* if (duration > 0 && !isNaN(power)) return { type: 'SteadyState', ... }
SteadyRecord(d, power, cadence) ==
    IF d.v > 0 /\ ~isNaN(power)
    THEN [type |-> "SteadyState", duration |-> d, power |-> power,
          cadence |-> cadence]
    ELSE NULL
SteadyOfAnySpans(steadyMatch, spans, cadence) ==
    IF steadyMatch # <<>> /\ Len(spans) >= 1
    THEN SteadyRecord(parseDuration(Str(steadyMatch[1])), SpanPower(spans, 0), cadence)
    ELSE NULL
SteadyOf(steadyMatch, spans, cadence) ==
    IF steadyMatch # <<>> /\ Len(spans) = 1
    THEN SteadyRecord(parseDuration(Str(steadyMatch[1])), SpanPower(spans, 0), cadence)
    ELSE NULL
SteadyRule(text, spans, cadence) == SteadyOf(SteadyMatch(text), spans, cadence)

\* The text after the first delimiter, parts.slice(1).join(','), as
\* <<offText>>; <<>> when parts.length is 1.
OffTextOf(parts) == IF Len(parts) > 1 THEN <<Join(Tail(parts))>> ELSE <<>>
OffText(text) == OffTextOf(SplitFrom(NormalizeFrom(text, 1), 1, <<>>))

\* onCadence: the first "@ <n>rpm" of the text.
OnCadence(text) == IntOrNull(OnCadenceMatch(text))

\* offDuration: 0, or the first duration phrase of the off text, parsed.
ParsedOrZero(match) == IF match # <<>> THEN parseDuration(Str(match[1])) ELSE Whole(0)
OffDurationOf(off) == IF off # <<>> THEN ParsedOrZero(DurationMatch(off[1])) ELSE Whole(0)

\* offCadence: null, or the first "<n>rpm" of the off text.
OffCadenceOf(off) == IF off # <<>> THEN IntOrNull(CadenceMatch(off[1])) ELSE NULL

\* if (!isNaN(repeat) && onDuration > 0 && !isNaN(onPower) && offDuration > 0
\*     && !isNaN(offPower)) return { type: 'IntervalsT', ... }
IntervalRecordAnyOffDuration(repeat, onDuration, onPower, offDuration, offPower, onCadence, offCadence) ==
    IF /\ ~isNaN(repeat) /\ onDuration.v > 0 /\ ~isNaN(onPower) /\ ~isNaN(offPower)
    THEN [type |-> "IntervalsT", repeat |-> repeat,
          onDuration |-> onDuration, onPower |-> onPower,
          offDuration |-> offDuration, offPower |-> offPower,
          onCadence |-> onCadence, offCadence |-> offCadence]
    ELSE NULL
IntervalRecord(repeat, onDuration, onPower, offDuration, offPower, onCadence, offCadence) ==
    IF /\ ~isNaN(repeat) /\ onDuration.v > 0 /\ ~isNaN(onPower)
       /\ offDuration.v > 0 /\ ~isNaN(offPower)
    THEN [type |-> "IntervalsT", repeat |-> repeat,
          onDuration |-> onDuration, onPower |-> onPower,
          offDuration |-> offDuration, offPower |-> offPower,
          onCadence |-> onCadence, offCadence |-> offCadence]
    ELSE NULL
IntervalOf(intervalMatch, text, off, spans) ==
    IF intervalMatch # <<>> /\ Len(spans) = 2
    THEN IntervalRecord(parseInt(intervalMatch[1]),
                        parseDuration(Str(intervalMatch[2])),
                        SpanPower(spans, 0), OffDurationOf(off),
                        SpanPower(spans, 1), OnCadence(text), OffCadenceOf(off))
    ELSE NULL
IntervalRule(text, spans) == IntervalOf(IntervalMatch(text), text, OffText(text), spans)

\* The fallback: one span and a text that begins with a duration phrase.
FallbackOf(durationMatch, spans, cadence) ==
    IF Len(spans) = 1 /\ durationMatch # <<>>
    THEN SteadyRecord(parseDuration(Str(durationMatch[1])), SpanPower(spans, 0), cadence)
    ELSE NULL
FallbackRule(text, spans, cadence) ==
    FallbackOf(LeadingDurationMatch(text), spans, cadence)

\* A rule's record when it returns one, else what the rules after it give.
Returned(record, later) == IF record # NULL THEN record ELSE later

\* The cascade: the first rule that returns a record decides; null when
\* none does.
CascadeFreeRideLast(text, spans, cadence) ==
    Returned(RampRule(text, spans, cadence),
    Returned(SteadyRule(text, spans, cadence),
    Returned(IntervalRule(text, spans),
    Returned(FallbackRule(text, spans, cadence),
             FreeRideRule(text)))))
Cascade(text, spans, cadence) ==
    Returned(FreeRideRule(text),
    Returned(RampRule(text, spans, cadence),
    Returned(SteadyRule(text, spans, cadence),
    Returned(IntervalRule(text, spans),
             FallbackRule(text, spans, cadence)))))

Classify(text, spans) == Cascade(text, spans, TextCadence(text))

parseSegment(el) == Classify(Trim(el.text), el.spans)

---------------------------------------------------------------------------
(* generateZWO.  The text it writes is a sequence of pieces: a stretch of    *)
(* text, the opening `<Tag ` of an element, an attribute `Name="value"`,     *)
(* the closing ` />` of an element.  A segment is a record; a property it    *)
(* does not have reads as undefined.                                         *)

\* The decimal digits of a whole number >= 0.
DigitChar(d) == Digits[d + 1]

RECURSIVE IntToStr(_)
IntToStr(n) ==
    IF n < 10 THEN <<DigitChar(n)>>
    ELSE IntToStr(n \div 10) \o <<DigitChar(n % 10)>>

TextPiece(s) == [text |-> s]
OpenTag(tag) == [open |-> tag]
Attribute(name, value) == [attr |-> name, value |-> value]
CloseTag == [close |-> TRUE]
\* A character that has a meaning in XML, written as it is: "&".
RawPiece(s) == [raw |-> s]

\* segment.name
Get(o, name) == IF name \in DOMAIN o THEN o[name] ELSE UNDEFINED

IsNumber(x) == "nan" \in DOMAIN x

\* The test of `if (x)` and of `x || y` for a number, null or undefined.
Truthy(x) == IsNumber(x) /\ ~x.nan /\ x.v # 0

\* Digits after the point of a number of thousandths, with no trailing 0.
FractionDigits(t) ==
    IF t % 100 = 0 THEN <<DigitChar(t \div 100)>>
    ELSE IF t % 10 = 0 THEN <<DigitChar(t \div 100), DigitChar((t \div 10) % 10)>>
    ELSE <<DigitChar(t \div 100), DigitChar((t \div 10) % 10), DigitChar(t % 10)>>

\* The decimal text of a number >= 0 given in thousandths.
DecimalText(t) ==
    IF t % Scale = 0 THEN IntToStr(t \div Scale)
    ELSE IntToStr(t \div Scale) \o <<".">> \o FractionDigits(t % Scale)

\* `${x}` for a number, null or undefined.
TemplateText(x) ==
    IF ~IsNumber(x) THEN (IF x = NULL THEN <<"n", "u", "l", "l">>
                          ELSE <<"u", "n", "d", "e", "f", "i", "n", "e", "d">>)
    ELSE IF x.nan THEN <<"N", "a", "N">>
    ELSE IF x.v < 0 THEN <<"-">> \o DecimalText(0 - x.v)
    ELSE DecimalText(x.v)

\* The text of h hundredths with two digits after the point.
HundredthsText(h) ==
    IntToStr(h \div 100) \o <<".", DigitChar((h \div 10) % 10), DigitChar(h % 10)>>

\* x.toFixed(2) for a number: the nearest hundredth, and the larger one when
\* two are equally near.  The values of this model are thousandths that
\* binary floating point holds exactly when they lie half way (0.125), so
\* the half-way case is decided as written here.
ToFixedAsWritten(x) == TemplateText(x)
ToFixed2(x) ==
    IF x.nan THEN <<"N", "a", "N">>
    ELSE IF x.v < 0 THEN <<"-">> \o HundredthsText((0 - x.v + 5) \div 10)
    ELSE HundredthsText((x.v + 5) \div 10)

POWER_DEFAULT == <<"0", ".", "5", "0">>
DURATION_DEFAULT == <<"6", "0">>

HasType(seg) == "type" \in DOMAIN seg

\* segmentToProcess.type after the override for the first and last segment;
\* "undefined" is what the template writes for a type that is not there.
ProcessedTypeLastFirst(seg, isFirst, isLast, n) ==
    IF isLast THEN "Cooldown"
    ELSE IF isFirst THEN "Warmup"
    ELSE IF HasType(seg) THEN seg.type
    ELSE "undefined"
ProcessedType(seg, isFirst, isLast, n) ==
    IF isFirst THEN "Warmup"
    ELSE IF isLast /\ n > 1 THEN "Cooldown"
    ELSE IF HasType(seg) THEN seg.type
    ELSE "undefined"

\* segmentToProcess.originalType || segmentToProcess.type
OriginalTypeIsTag(seg, isFirst, isLast, n) == ProcessedType(seg, isFirst, isLast, n)
OriginalType(seg, isFirst, isLast, n) ==
    IF HasType(seg) THEN seg.type ELSE ProcessedType(seg, isFirst, isLast, n)

\* const segmentToProcess = { ...segment } after the override for the first
\* and last segment: the fields of the segment, with type set and originalType
\* added (an originalType of undefined reads like one that is not there).
SegmentToProcess(seg, isFirst, isLast, n) ==
    IF isFirst \/ (isLast /\ n > 1)
    THEN [f \in DOMAIN seg \cup {"type"}
                \cup (IF HasType(seg) THEN {"originalType"} ELSE {}) |->
            IF f = "type" THEN ProcessedType(seg, isFirst, isLast, n)
            ELSE IF f = "originalType" THEN seg.type
            ELSE seg[f]]
    ELSE seg

\* The list after the callback has written to segmentToProcess, which is a
\* copy ({ ...segment }) of the segment at position i: the list keeps its
\* segment.
SegmentsAliased(segs, i, processed) == [segs EXCEPT ![i] = processed]
SegmentsCloned(segs, i, processed) == segs

\* if (cadence) xml += ` Name="${cadence}"`
OptionalAttributeNotNull(name, value) ==
    IF IsNumber(value) THEN <<Attribute(name, TemplateText(value))>> ELSE <<>>
OptionalAttribute(name, value) ==
    IF Truthy(value) THEN <<Attribute(name, TemplateText(value))>> ELSE <<>>

\* segmentToProcess.flatRoad || 1
FlatRoadOrOne(value) == IF Truthy(value) THEN TemplateText(value) ELSE <<"1">>

\* The kinds whose case calls toFixed on a property that is no number: the
\* call throws a TypeError.
ToFixedThrows(seg, originalType) ==
    \/ originalType = "Ramp"
        /\ ~(IsNumber(Get(seg, "powerLow")) /\ IsNumber(Get(seg, "powerHigh")))
    \/ originalType = "SteadyState" /\ ~IsNumber(Get(seg, "power"))
    \/ originalType = "IntervalsT"
        /\ ~(IsNumber(Get(seg, "onPower")) /\ IsNumber(Get(seg, "offPower")))

RampAttributes(seg) ==
    <<Attribute("Duration", TemplateText(Get(seg, "duration"))),
      Attribute("PowerLow", ToFixed2(Get(seg, "powerLow"))),
      Attribute("PowerHigh", ToFixed2(Get(seg, "powerHigh")))>>
    \o OptionalAttribute("Cadence", Get(seg, "cadence"))

SteadyStateAttributes(seg) ==
    <<Attribute("Duration", TemplateText(Get(seg, "duration"))),
      Attribute("Power", ToFixed2(Get(seg, "power")))>>
    \o OptionalAttribute("Cadence", Get(seg, "cadence"))

IntervalsTAttributes(seg) ==
    <<Attribute("Repeat", TemplateText(Get(seg, "repeat"))),
      Attribute("OnDuration", TemplateText(Get(seg, "onDuration"))),
      Attribute("OnPower", ToFixed2(Get(seg, "onPower"))),
      Attribute("OffDuration", TemplateText(Get(seg, "offDuration"))),
      Attribute("OffPower", ToFixed2(Get(seg, "offPower")))>>
    \o OptionalAttribute("OnCadence", Get(seg, "onCadence"))
    \o OptionalAttribute("OffCadence", Get(seg, "offCadence"))

FreeRideAttributes(seg) ==
    <<Attribute("Duration", TemplateText(Get(seg, "duration"))),
      Attribute("FlatRoad", FlatRoadOrOne(Get(seg, "flatRoad")))>>
    \o OptionalAttribute("Cadence", Get(seg, "cadence"))

\* The default case for a segment that has a duration.
DefaultAttributesNoCadence(seg) ==
    <<Attribute("Duration", TemplateText(Get(seg, "duration"))),
      Attribute("Power", POWER_DEFAULT)>>
DefaultAttributes(seg) ==
    <<Attribute("Duration", TemplateText(Get(seg, "duration"))),
      Attribute("Power", POWER_DEFAULT)>>
    \o OptionalAttribute("Cadence", Get(seg, "cadence"))

\* xml.replace(`<${type} `, `<SteadyState `): the first `<type ` of the whole
\* text, wherever it stands, becomes `<SteadyState `.
ReplaceAt(text, found, piece) ==
    IF found = {} THEN text ELSE [text EXCEPT ![Min(found)] = piece]
ReplaceFirst(text, piece, by) ==
    ReplaceAt(text, {i \in 1..Len(text) : text[i] = piece}, by)

\* The switch on originalType, applied to the text that ends with the
\* opening tag just written.
KnownTypes == {"Ramp", "SteadyState", "IntervalsT", "FreeRide"}

Switch(opened, seg, type, originalType) ==
    IF originalType = "Ramp" THEN opened \o RampAttributes(seg)
    ELSE IF originalType = "SteadyState" THEN opened \o SteadyStateAttributes(seg)
    ELSE IF originalType = "IntervalsT" THEN opened \o IntervalsTAttributes(seg)
    ELSE IF originalType = "FreeRide" THEN opened \o FreeRideAttributes(seg)
    ELSE IF Truthy(Get(seg, "duration")) THEN opened \o DefaultAttributes(seg)
    ELSE ReplaceFirst(opened, OpenTag(type), OpenTag("SteadyState"))
         \o <<Attribute("Duration", DURATION_DEFAULT), Attribute("Power", POWER_DEFAULT)>>

\* One call of the forEach callback: the text after it.
WriteTyped(text, seg, type, originalType) ==
    Append(Switch(Append(text, OpenTag(type)), seg, type, originalType), CloseTag)
WriteSegment(text, seg, isFirst, isLast, n) ==
    WriteTyped(text, seg, ProcessedType(seg, isFirst, isLast, n),
               OriginalType(seg, isFirst, isLast, n))

\* The text after the callbacks for the segments from position i on, or
\* Thrown when one of them throws.
Thrown == <<TypeError>>

RECURSIVE WriteSegments(_, _, _)
WriteSegments(text, segs, i) ==
    IF i > Len(segs) THEN text
    ELSE IF ToFixedThrows(segs[i], OriginalType(segs[i], i = 1, i = Len(segs), Len(segs)))
    THEN Thrown
    ELSE WriteSegments(WriteSegment(text, segs[i], i = 1, i = Len(segs), Len(segs)),
                       segs, i + 1)

\* The text before and after the elements.
HEAD == "<workout_file><author>WhatsOnZwift Exporter</author><name>"
DESCRIPTION == "</name><description>Workout exported from WhatsOnZwift: "
SPORT == "</description><sportType>bike</sportType><tags/><workout>"
FOOT == "</workout></workout_file>"

\* `${workoutName}` and `${window.location.href}` are written as they are.
Header(name, location) ==
    <<TextPiece(HEAD)>> \o name \o <<TextPiece(DESCRIPTION)>> \o location
    \o <<TextPiece(SPORT)>>

\* The text generateZWO returns, or Thrown.
Closed(text) == IF text = Thrown THEN Thrown ELSE Append(text, TextPiece(FOOT))
generateZWO(name, segs, location) ==
    Closed(WriteSegments(Header(name, location), segs, 1))

---------------------------------------------------------------------------
(* The phrases parseDuration is called with.                               *)

\* A numeral as written (txt) with the number it denotes (val), the latter
\* stated here and not computed by parseFloat.
WholeNumerals ==
    {[txt |-> IntToStr(n * k), val |-> Whole(n * k), kind |-> "whole"] :
        n \in 0..MaxCount, k \in {1, 15}}

DecimalNumerals ==
    { [txt |-> <<"1", "5", ".", "5">>, val |-> Num(15 * Scale + 500), kind |-> "decimal"],
      [txt |-> <<"1", "5", ".", "4">>, val |-> Num(15 * Scale + 400), kind |-> "decimal"],
      [txt |-> <<"2", ".", "5">>, val |-> Num(2 * Scale + 500), kind |-> "decimal"],
      [txt |-> <<"0", ".", "5">>, val |-> Num(500), kind |-> "decimal"] }

\* Numerals [\d.]+ accepts that are no decimal literal: "." and "..5" denote
\* no number, "1.2.3" is read up to its second point.
MalformedNumerals ==
    { [txt |-> <<".">>, val |-> NaN, kind |-> "malformed"],
      [txt |-> <<".", ".", "5">>, val |-> NaN, kind |-> "malformed"],
      [txt |-> <<"1", ".", "2", ".", "3">>, val |-> Num(Scale + 200), kind |-> "malformed"] }

Numerals == WholeNumerals \cup DecimalNumerals \cup MalformedNumerals

MinWords == {MIN, <<"M", "I", "N">>, <<"M", "i", "n">>}
SecWords == {SEC, <<"S", "E", "C">>, <<"S", "e", "c">>}
\* What is written after the number in "10 m" and in "10".
NoUnitWords == {<<"m">>, <<>>}

Gaps == {<<>>, <<" ">>}

\* One number with what follows it: "7min", "30 SEC", "10 m".
Parts(words) ==
    {[num |-> n, gap |-> g, unit |-> u] : n \in Numerals, g \in Gaps, u \in words}

PartText(p) == p.num.txt \o p.gap \o p.unit

\* Texts with no number at all.
PlainTexts ==
    { <<>>,
      <<"i", "n", "v", "a", "l", "i", "d", " ", "s", "t", "r", "i", "n", "g">>,
      <<"m", "i", "n">>,
      <<"m", "i", "n", " ", "s", "e", "c">> }

DurationPhrases ==
    {[form |-> "null"], [form |-> "undefined"]}
    \cup {[form |-> "plain", text |-> t] : t \in PlainTexts}
    \cup {[form |-> "single", a |-> p] : p \in Parts(MinWords \cup SecWords \cup NoUnitWords)}
    \cup {[form |-> "both", a |-> p, b |-> q] : p \in Parts(MinWords), q \in Parts(SecWords)}

\* The value handed to parseDuration for a phrase.
PhraseArg(p) ==
    CASE p.form = "null" -> NULL
      [] p.form = "undefined" -> UNDEFINED
      [] p.form = "plain" -> Str(p.text)
      [] p.form = "single" -> Str(PartText(p.a))
      [] p.form = "both" -> Str(PartText(p.a) \o <<" ">> \o PartText(p.b))

NoPhrase == [form |-> "none"]
NoFragment == [form |-> "none"]
NoElement == [text |-> <<>>, spans |-> <<>>]
NoPage == [form |-> "none"]

\* No page: the function is called by itself.
NoBrowser ==
    /\ page = NoPage
    /\ buttons = <<>>
    /\ parseWarnings = 0
    /\ calls = <<>>
    /\ timers = {}

---------------------------------------------------------------------------
(* parseDuration applied to one phrase.                                    *)

InitDuration ==
    /\ pc = "call"
    /\ phrase \in DurationPhrases
    /\ durationStr = PhraseArg(phrase)
    /\ duration = UNDEFINED
    /\ fragment = NoFragment
    /\ element = NoElement
    /\ segment = UNDEFINED
    /\ workoutName = <<>>
    /\ segments = <<>>
    /\ index = 0
    /\ xml = <<>>
    /\ href = <<>>
    /\ NoBrowser

CallParseDuration ==
    /\ pc = "call"
    /\ phrase # NoPhrase
    /\ duration' = parseDuration(durationStr)
    /\ pc' = "done"
    /\ UNCHANGED <<phrase, durationStr, fragment, element, segment>>
    /\ UNCHANGED <<workoutName, segments, index, xml, href, browser>>

NextDuration == CallParseDuration

SpecDuration == InitDuration /\ [][NextDuration]_vars

---------------------------------------------------------------------------
(* Properties of parseDuration, checked under SpecDuration.                *)

\* The whole number of seconds nearest to v thousandths, a half rounded up.
NearestWhole(v) == Num(((2 * v + Scale) \div (2 * Scale)) * Scale)

\* The phrase is written "{m}min {s}sec" with whole numbers m and s.
IsMinSecPhrase(p) ==
    /\ p.form = "both"
    /\ p.a.num.kind = "whole" /\ p.a.gap = <<>> /\ p.a.unit = MIN
    /\ p.b.num.kind = "whole" /\ p.b.gap = <<>> /\ p.b.unit = SEC

\* C1: for every phrase "{m}min {s}sec" with whole numbers m >= 0 and s >= 0,
\* parseDuration returns m*60 + s: both unit tokens are added.
C1_MinSecAdds ==
    (pc = "done" /\ IsMinSecPhrase(phrase))
        => duration = Num(phrase.a.num.val.v * 60 + phrase.b.num.val.v)

C1_Witness ==
    /\ pc = "done"
    /\ IsMinSecPhrase(phrase)
    /\ phrase.a.num.val.v > 0
    /\ phrase.b.num.val.v > 0
    /\ duration = Num(phrase.a.num.val.v * 60 + phrase.b.num.val.v)

\* The number a part denotes, in seconds: its numeral times 60 for a minutes
\* word, in any letter case.
PartSeconds(p) ==
    IF p.unit \in MinWords THEN NumMul(p.num.val, 60) ELSE p.num.val

\* C2: the unit markers are recognised in any letter case, in single-unit
\* phrases and in phrases with both units: a single-unit phrase is its number
\* in seconds whatever the case of its marker, and a phrase with both units is
\* minutes*60 + seconds whatever the case of its markers.
C2_CaseInsensitiveUnits ==
    /\ (pc = "done" /\ phrase.form = "single"
            /\ phrase.a.unit \in MinWords \cup SecWords /\ ~phrase.a.num.val.nan)
        => duration = NearestWhole(PartSeconds(phrase.a).v)
    /\ (pc = "done" /\ phrase.form = "both"
            /\ ~phrase.a.num.val.nan /\ ~phrase.b.num.val.nan)
        => duration = NearestWhole(phrase.a.num.val.v * 60 + phrase.b.num.val.v)

\* C3: parseDuration returns a number that is never negative, and returns 0 for
\* null, undefined, the empty string, a text with no number followed by "min"
\* or "sec" ("10", "10 m", "invalid string"), and a numeral that is not a number.
C3_ZeroWhenUnparseable ==
    pc = "done" =>
        /\ ~duration.nan
        /\ duration.v >= 0
        /\ phrase.form \in {"null", "undefined", "plain"} => duration = Whole(0)
        /\ (phrase.form = "single" /\ phrase.a.unit \in NoUnitWords)
            => duration = Whole(0)
        /\ (phrase.form = "single" /\ phrase.a.num.val.nan) => duration = Whole(0)
        /\ (phrase.form = "both" /\ phrase.a.num.val.nan) => duration = Whole(0)
        /\ (phrase.form = "both" /\ phrase.a.unit = MIN /\ phrase.b.unit = SEC
                /\ phrase.b.num.val.nan)
            => duration = Whole(0)

C3_Witness ==
    /\ pc = "done"
    /\ phrase.form = "single"
    /\ phrase.a.unit = <<>>
    /\ phrase.a.num.kind = "whole"
    /\ phrase.a.num.val.v > 0
    /\ duration = Whole(0)

\* C4: parseDuration returns a whole number of seconds, the computed value
\* rounded to the nearest whole number with an exact half rounded up:
\* "15.5sec" is 16, "15.4sec" is 15, "2.5min" is 150, "0.5min" is 30.
C4_RoundsHalfUp ==
    pc = "done" =>
        /\ duration.v % Scale = 0
        /\ (phrase.form = "single" /\ phrase.a.unit \in MinWords \cup SecWords
                /\ ~phrase.a.num.val.nan)
            => duration = NearestWhole(PartSeconds(phrase.a).v)
        /\ durationStr = Str(<<"1", "5", ".", "5", "s", "e", "c">>) => duration = Whole(16)
        /\ durationStr = Str(<<"1", "5", ".", "4", "s", "e", "c">>) => duration = Whole(15)
        /\ durationStr = Str(<<"2", ".", "5", "m", "i", "n">>) => duration = Whole(150)
        /\ durationStr = Str(<<"0", ".", "5", "m", "i", "n">>) => duration = Whole(30)

C4_Witness ==
    /\ pc = "done"
    /\ durationStr = Str(<<"1", "5", ".", "5", "s", "e", "c">>)
    /\ duration = Whole(16)

---------------------------------------------------------------------------
(* The elements parseSegment is called with.  A fragment names the pieces   *)
(* an element's text is written from:                                       *)
(*     [<n>x ] <lead phrase> <tail> [<delimiter> <off phrase> <off tail>]   *)
(* and the values of its annotation spans.                                  *)

Space == <<" ">>
Percent == <<"%">>

NoRepeat == [form |-> "none"]
Repeats ==
    { [form |-> "repeat", n |-> MaxCount, x |-> "x"],
      [form |-> "repeat", n |-> 0, x |-> "x"],
      [form |-> "repeat", n |-> MaxCount, x |-> "X"] }

RepeatText(r) ==
    IF r = NoRepeat THEN <<>> ELSE IntToStr(r.n) \o <<r.x>> \o Space

\* The numerals written in fragments: 0, MaxCount, 15*MaxCount, 2.5 and 15.5.
SegmentNumerals ==
    {n \in Numerals :
        \/ n.kind = "whole" /\ n.val \in {Whole(0), Whole(MaxCount), Whole(15 * MaxCount)}
        \/ n.kind = "decimal" /\ n.val.v % Scale # 400 /\ n.val.v > Scale}

LowerWords == {MIN, SEC}
UpperWords == {<<"M", "I", "N">>, <<"S", "E", "C">>}

\* "2min", "2 min", "2MIN", "15.5sec", ...
SingleLeads ==
    {[form |-> "single", a |-> p] :
        p \in {q \in Parts(LowerWords \cup UpperWords) :
                 /\ q.num \in SegmentNumerals
                 /\ q.gap # <<>> => (q.num.kind = "whole" /\ q.unit \in LowerWords)}}

\* "2min 30sec", "0min 30sec", "2min 30 sec", "2.5min 15.5sec", "2MIN 30SEC", ...
BothLeads ==
    {[form |-> "both", a |-> p, b |-> q] :
        p \in {r \in Parts({MIN, <<"M", "I", "N">>}) :
                 /\ r.num \in SegmentNumerals
                 /\ r.num.val.v < 15 * Scale
                 /\ r.gap = <<>>},
        q \in {r \in Parts({SEC, <<"S", "E", "C">>}) :
                 /\ r.num \in SegmentNumerals
                 /\ r.num.val.v \notin {Whole(MaxCount).v, 2 * Scale + 500}
                 /\ r.gap # <<>> => r.unit = SEC}}

SameCase(p) == (p.a.unit = MIN) <=> (p.b.unit = SEC)

LeadPhrases == SingleLeads \cup {p \in BothLeads : SameCase(p)}

\* The leads written after "<n>x ": no gap before the unit word.
IntervalLeads ==
    {p \in LeadPhrases :
        /\ p.a.gap = <<>>
        /\ p.form = "single" => p.a.unit \in LowerWords
        /\ p.form = "both" => (p.a.unit = MIN \/ (p.a.num.kind = "whole" /\ p.b.num.kind = "whole"))}

PhraseText(p) == PhraseArg(p).s

\* What follows the lead phrase.  cad is <<>> or <<n>>: a cadence "n rpm".
\*   at:    " @ 80%"            or  " @ 110rpm, 80%"
\*   from:  " from 60 to 85%"   or  " @ 110rpm, from 60 to 85%"
\*   free:  " free ride"        or  " Free Ride @ 110rpm"
\*   bare:  " 65%"
\*   none:  ""
Tails ==
    { [kind |-> "at", cad |-> <<>>], [kind |-> "at", cad |-> <<110>>],
      [kind |-> "from", cad |-> <<>>], [kind |-> "from", cad |-> <<110>>],
      [kind |-> "free", cad |-> <<>>], [kind |-> "free", cad |-> <<110>>],
      [kind |-> "bare", cad |-> <<>>], [kind |-> "none", cad |-> <<>>] }

CadText(cad) == IF cad = <<>> THEN <<>> ELSE IntToStr(cad[1]) \o RPM

TailText(t) ==
    CASE t.kind = "at" ->
            Space \o AT \o Space
            \o (IF t.cad = <<>> THEN <<>> ELSE CadText(t.cad) \o COMMA \o Space)
            \o <<"8", "0">> \o Percent
      [] t.kind = "from" ->
            (IF t.cad = <<>> THEN <<>> ELSE Space \o AT \o Space \o CadText(t.cad) \o COMMA)
            \o Space \o FROM \o Space \o <<"6", "0", " ", "t", "o", " ", "8", "5">> \o Percent
      [] t.kind = "free" ->
            IF t.cad = <<>> THEN Space \o FREE \o Space \o RIDE
            ELSE Space \o <<"F", "r", "e", "e", " ", "R", "i", "d", "e">>
                 \o Space \o AT \o Space \o CadText(t.cad)
      [] t.kind = "bare" -> Space \o <<"6", "5">> \o Percent
      [] t.kind = "none" -> <<>>

\* The off phase: a delimiter, a duration phrase (or none), then
\* " @ 50%" or " @ 85rpm, 50%".
NoRest == [form |-> "none"]
OnePhrase(n, w) ==
    [form |-> "single", a |-> [num |-> n, gap |-> <<>>, unit |-> w]]
OffPhrases ==
    {NoPhrase}
    \cup {OnePhrase(n, MIN) : n \in {m \in WholeNumerals : m.val.v <= Scale}}
    \cup {OnePhrase(n, SEC) : n \in {m \in DecimalNumerals : m.val.v = 15 * Scale + 500}}
    \cup {[form |-> "both", a |-> [num |-> n, gap |-> <<>>, unit |-> MIN],
                            b |-> [num |-> m, gap |-> <<>>, unit |-> SEC]] :
            n \in {k \in WholeNumerals : k.val = Whole(1)},
            m \in {k \in WholeNumerals : k.val = Whole(15 * MaxCount)}}

Delimiters ==
    { COMMA \o Space, COMMA \o <<"\n">> \o Space, <<"\n">>, COMMA \o BR \o GT,
      <<" ", "<", "B", "R", " ", "/", ">">> }

Rests ==
    {NoRest}
    \cup {[form |-> "rest", delim |-> d, off |-> OnePhrase(n, MIN), cad |-> <<>>] :
            d \in Delimiters, n \in {k \in WholeNumerals : k.val = Whole(1)}}
    \cup {[form |-> "rest", delim |-> COMMA \o Space, off |-> o, cad |-> c] :
            o \in OffPhrases, c \in {<<>>, <<85>>}}

RestText(r) ==
    IF r = NoRest THEN <<>>
    ELSE r.delim
         \o (IF r.off = NoPhrase THEN <<>> ELSE PhraseText(r.off))
         \o Space \o AT \o Space
         \o (IF r.cad = <<>> THEN <<>> ELSE CadText(r.cad) \o COMMA \o Space)
         \o <<"5", "0">> \o Percent

\* The annotation values of an element: whole numbers 25, 50, ... in rising
\* or in falling order.
SpanLists ==
    {[i \in 1..n |-> 25 * i] : n \in 0..MaxSpans}
    \cup {[i \in 1..n |-> 25 * (n + 1 - i)] : n \in 0..MaxSpans}

\* How the annotation values are written in data-value: in digits ("25"),
\* as a text that is no number ("x25"), as "0" whatever the value, or with a
\* minus sign ("-25").
Writings == {"digits", "text", "zero", "minus"}

\* The leads of the fragments whose annotations are not written in digits:
\* "2min".
TextLeads == {p \in IntervalLeads : p.form = "single" /\ p.a.unit = MIN}

\* Texts that begin with no duration phrase: "", "invalid string".
PlainLeads ==
    {[form |-> "plain", text |-> t] : t \in {u \in PlainTexts : Len(u) = 0 \/ Len(u) > 7}}

\* Every way of writing the pieces together, the annotations in digits.
FragmentShapes ==
    {[rep |-> NoRepeat, lead |-> l, tail |-> t, rest |-> NoRest, spans |-> a,
      written |-> "digits"] :
        l \in LeadPhrases \cup PlainLeads, t \in Tails, a \in SpanLists}
    \cup
    {[rep |-> r, lead |-> l, tail |-> t, rest |-> o, spans |-> a,
      written |-> "digits"] :
        r \in Repeats \cup {NoRepeat}, l \in IntervalLeads,
        t \in {u \in Tails : u.kind = "at"}, o \in Rests, a \in SpanLists}

\* The fragments: every shape, and the shapes with a lead of TextLeads in
\* each other writing of the annotations.
Fragments ==
    FragmentShapes
    \cup {[f EXCEPT !.written = w] :
            f \in {g \in FragmentShapes : g.lead \in TextLeads},
            w \in Writings \ {"digits"}}

FragmentText(f) ==
    RepeatText(f.rep) \o PhraseText(f.lead) \o TailText(f.tail) \o RestText(f.rest)

\* The element of a fragment: its text and its span[data-value] values.
DataValue(n, w) ==
    IF w = "digits" THEN IntToStr(n)
    ELSE IF w = "zero" THEN <<"0">>
    ELSE IF w = "minus" THEN <<"-">> \o IntToStr(n)
    ELSE <<"x">> \o IntToStr(n)

FragmentElement(f) ==
    [text |-> FragmentText(f),
     spans |-> [i \in 1..Len(f.spans) |-> DataValue(f.spans[i], f.written)]]

---------------------------------------------------------------------------
(* parseSegment applied to one element.                                    *)

InitSegment ==
    /\ pc = "call"
    /\ fragment \in Fragments
    /\ element = FragmentElement(fragment)
    /\ segment = UNDEFINED
    /\ phrase = NoPhrase
    /\ durationStr = UNDEFINED
    /\ duration = UNDEFINED
    /\ workoutName = <<>>
    /\ segments = <<>>
    /\ index = 0
    /\ xml = <<>>
    /\ href = <<>>
    /\ NoBrowser

CallParseSegment ==
    /\ pc = "call"
    /\ fragment # NoFragment
    /\ segment' = parseSegment(element)
    /\ pc' = "done"
    /\ UNCHANGED <<phrase, durationStr, duration, fragment, element>>
    /\ UNCHANGED <<workoutName, segments, index, xml, href, browser>>

NextSegment == CallParseSegment

SpecSegment == InitSegment /\ [][NextSegment]_vars

---------------------------------------------------------------------------
(* Properties of parseSegment, checked under SpecSegment.  What a fragment  *)
(* is expected to give is stated from the pieces it was written from.       *)

\* The record is one of the given kind.
IsKind(seg, kind) == seg # NULL /\ seg.type = kind

\* a/100 for the annotation at index k (from 0) of a fragment whose
\* annotations are written in digits.
AnnotationPower(f, k) == Num((f.spans[k + 1] * Scale) \div 100)

\* The parsed duration of the fragment's leading phrase.
LeadDuration(f) == parseDuration(PhraseArg(f.lead))

\* <<n>> as the number n, <<>> as null.
CadenceOrNull(cad) == IF cad = <<>> THEN NULL ELSE Whole(cad[1])

\* The integer before the first "rpm" of the fragment's text, or null.
FirstCadence(f) ==
    IF f.tail.cad # <<>> THEN Whole(f.tail.cad[1])
    ELSE IF f.rest # NoRest THEN CadenceOrNull(f.rest.cad)
    ELSE NULL

\* C5: a fragment "<duration phrase> @ ..." with exactly one annotation a and
\* a positive parsed duration d gives SteadyState with duration d, power a/100
\* and cadence the integer written before "rpm", or null when there is none.
C5_SteadyState ==
    (/\ pc = "done"
     /\ fragment.rep = NoRepeat
     /\ fragment.tail.kind = "at"
     /\ Len(fragment.spans) = 1
     /\ fragment.written = "digits"
     /\ LeadDuration(fragment).v > 0)
        => segment = [type |-> "SteadyState",
                      duration |-> LeadDuration(fragment),
                      power |-> AnnotationPower(fragment, 0),
                      cadence |-> FirstCadence(fragment)]

\* C6: a fragment "<duration phrase> [@ <N>rpm,] from ..." with exactly two
\* annotations a0, a1 and a positive parsed duration d gives Ramp with duration
\* d, powerLow a0/100, powerHigh a1/100 in the order given, and cadence N or
\* null.
C6_Ramp ==
    (/\ pc = "done"
     /\ fragment.tail.kind = "from"
     /\ Len(fragment.spans) = 2
     /\ fragment.written = "digits"
     /\ LeadDuration(fragment).v > 0)
        => segment = [type |-> "Ramp",
                      duration |-> LeadDuration(fragment),
                      powerLow |-> AnnotationPower(fragment, 0),
                      powerHigh |-> AnnotationPower(fragment, 1),
                      cadence |-> CadenceOrNull(fragment.tail.cad)]

\* The fragment with its lead "{m}min {s}sec" written as "{m*60+s}sec".
WholeNumeral(n) == [txt |-> IntToStr(n), val |-> Whole(n), kind |-> "whole"]
TotalSeconds(p) == (p.a.num.val.v * 60 + p.b.num.val.v) \div Scale
InSeconds(p) == OnePhrase(WholeNumeral(TotalSeconds(p)), SEC)
SingleUnitFragment(f) == [f EXCEPT !.lead = InSeconds(f.lead)]

\* The duration of a record: onDuration for IntervalsT.
SegmentDuration(seg) ==
    IF seg.type = "IntervalsT" THEN seg.onDuration ELSE seg.duration

\* C7: a fragment of the Ramp, SteadyState or IntervalsT shape whose lead is
\* "{m}min {s}sec" is parsed as the same fragment with the single-unit lead
\* "{m*60+s}sec" is: the same record, so the same kind, and when a record is
\* returned its duration (onDuration for IntervalsT) is m*60 + s.
C7_CombinedLikeSingleUnit ==
    (/\ pc = "done"
     /\ IsMinSecPhrase(fragment.lead)
     /\ fragment.tail.kind \in {"at", "from"})
        => /\ segment = parseSegment(FragmentElement(SingleUnitFragment(fragment)))
           /\ segment # NULL =>
                /\ segment.type \in {"Ramp", "SteadyState", "IntervalsT"}
                /\ SegmentDuration(segment)
                     = Num(fragment.lead.a.num.val.v * 60 + fragment.lead.b.num.val.v)

C7_Witness ==
    /\ pc = "done"
    /\ IsMinSecPhrase(fragment.lead)
    /\ fragment.lead.a.num.val.v > 0
    /\ fragment.lead.b.num.val.v > 0
    /\ fragment.rep # NoRepeat
    /\ IsKind(segment, "IntervalsT")
    /\ segment.onDuration
         = Num(fragment.lead.a.num.val.v * 60 + fragment.lead.b.num.val.v)

\* The fragment has an off phase with a duration phrase of positive value.
HasOffDuration(f) ==
    /\ f.rest # NoRest
    /\ f.rest.off # NoPhrase
    /\ parseDuration(PhraseArg(f.rest.off)).v > 0

\* C8: a fragment "<repeat>x <duration phrase> @ ..." with exactly two
\* annotations a0, a1, positive on and off durations, gives IntervalsT with
\* the repeat and onDuration of the leading clause, onPower a0/100, offPower
\* a1/100 (the annotations, not the numbers of the prose) and offDuration the
\* parsed value of the first duration phrase after the first delimiter.
C8_Intervals ==
    (/\ pc = "done"
     /\ fragment.rep # NoRepeat
     /\ fragment.tail.kind = "at"
     /\ Len(fragment.spans) = 2
     /\ fragment.written = "digits"
     /\ LeadDuration(fragment).v > 0
     /\ HasOffDuration(fragment))
        => /\ IsKind(segment, "IntervalsT")
           /\ segment.repeat = Whole(fragment.rep.n)
           /\ segment.onDuration = LeadDuration(fragment)
           /\ segment.onPower = AnnotationPower(fragment, 0)
           /\ segment.offPower = AnnotationPower(fragment, 1)
           /\ segment.offDuration = parseDuration(PhraseArg(fragment.rest.off))

\* C9: in an IntervalsT record onCadence is the cadence written before the
\* first delimiter, or null, and offCadence the cadence written after it, or
\* null: a cadence written in one half only is not given to the other.
\* In a fragment whose on phase has no cadence the first delimiter is the one
\* that begins the off phase.
C9_CadenceScopedToHalf ==
    (/\ pc = "done"
     /\ IsKind(segment, "IntervalsT")
     /\ fragment.tail.cad = <<>>)
        => /\ segment.onCadence = NULL
           /\ segment.offCadence = CadenceOrNull(fragment.rest.cad)

\* What the FreeRide rule is claimed to give for a fragment
\* "<duration phrase> free ride ...": FreeRide with the parsed duration d and
\* flatRoad 1 when d > 0, and no FreeRide when d = 0.
FreeRideExpected(f, seg) ==
    /\ LeadDuration(f).v > 0
        => seg = [type |-> "FreeRide", duration |-> LeadDuration(f),
                  flatRoad |-> Whole(1)]
    /\ LeadDuration(f).v = 0 => ~IsKind(seg, "FreeRide")

\* C10 as stated: every fragment "<duration phrase> free ride ...", whatever
\* its annotations and what follows, gives FreeRide with duration d and
\* flatRoad 1 when d > 0, and no FreeRide when d = 0.
C10_FreeRideAnyPhrase ==
    (pc = "done" /\ fragment.tail.kind = "free")
        => FreeRideExpected(fragment, segment)

\* C10 amended: the same for a single-unit phrase "<number>min" or
\* "<number>sec" followed by "free ride".
C10_FreeRideSingleUnit ==
    (pc = "done" /\ fragment.tail.kind = "free" /\ fragment.lead.form = "single")
        => FreeRideExpected(fragment, segment)

C10_Witness ==
    /\ pc = "done"
    /\ fragment.tail.kind = "free"
    /\ fragment.tail.cad # <<>>
    /\ fragment.lead.form = "single"
    /\ Len(fragment.spans) = 1
    /\ IsKind(segment, "FreeRide")
    /\ segment.duration = LeadDuration(fragment)
    /\ segment.flatRoad = Whole(1)

\* What the FreeRide, Ramp, SteadyState and IntervalsT rules, tried in
\* that order, return for an element: null when none returns a record.
EarlierRecord(el) ==
    Returned(FreeRideRule(Trim(el.text)),
    Returned(RampRule(Trim(el.text), el.spans, TextCadence(Trim(el.text))),
    Returned(SteadyRule(Trim(el.text), el.spans, TextCadence(Trim(el.text))),
             IntervalRule(Trim(el.text), el.spans))))

\* C11: when no earlier rule returned a record, a fragment with exactly one
\* annotation a whose text begins with a duration phrase of positive value d
\* is returned as SteadyState with duration d, power a/100 and the text's
\* cadence; a record an earlier rule returns is the result.
C11_Fallback ==
    pc = "done" =>
        /\ EarlierRecord(element) # NULL => segment = EarlierRecord(element)
        /\ (/\ EarlierRecord(element) = NULL
            /\ fragment.rep = NoRepeat
            /\ Len(fragment.spans) = 1
            /\ fragment.written = "digits"
            /\ LeadDuration(fragment).v > 0)
             => segment = [type |-> "SteadyState",
                           duration |-> LeadDuration(fragment),
                           power |-> AnnotationPower(fragment, 0),
                           cadence |-> FirstCadence(fragment)]

\* C12: SteadyState is returned only with exactly one annotation, Ramp and
\* IntervalsT only with exactly two; with no annotation a text of the Steady,
\* Ramp or Intervals shape gives null.
C12_KindBoundedByAnnotations ==
    pc = "done" =>
        /\ IsKind(segment, "SteadyState") => Len(fragment.spans) = 1
        /\ IsKind(segment, "Ramp") => Len(fragment.spans) = 2
        /\ IsKind(segment, "IntervalsT") => Len(fragment.spans) = 2
        /\ (Len(fragment.spans) = 0 /\ fragment.tail.kind \in {"at", "from"})
             => segment = NULL

C12_Witness ==
    /\ pc = "done"
    /\ Len(fragment.spans) = 0
    /\ fragment.rep # NoRepeat
    /\ fragment.tail.kind = "at"
    /\ LeadDuration(fragment).v > 0
    /\ HasOffDuration(fragment)
    /\ segment = NULL

\* C13: a fragment "<repeat>x <duration phrase> @ ..." with two annotations
\* whose text has no delimiter, or no duration phrase after the first
\* delimiter, gives null.
C13_NoOffDurationIsNull ==
    (/\ pc = "done"
     /\ fragment.rep # NoRepeat
     /\ fragment.tail.kind = "at"
     /\ Len(fragment.spans) = 2
     /\ (fragment.rest = NoRest \/ fragment.rest.off = NoPhrase))
        => segment = NULL

C13_Witness ==
    /\ pc = "done"
    /\ fragment.rep # NoRepeat
    /\ fragment.rep.n > 0
    /\ fragment.tail.kind = "at"
    /\ Len(fragment.spans) = 2
    /\ fragment.written = "digits"
    /\ LeadDuration(fragment).v > 0
    /\ fragment.rest # NoRest
    /\ fragment.rest.off = NoPhrase
    /\ segment = NULL

SegmentKinds == {"FreeRide", "Ramp", "SteadyState", "IntervalsT"}

\* C14: parseSegment returns for every element, with null or a record of one
\* of the four kinds and never an error; a text that begins with no duration
\* phrase, an element with no annotation and no "free ride", and an element
\* whose annotations are no numbers and has no "free ride", give null.
C14_NeverThrows ==
    pc = "done" =>
        /\ segment # TypeError
        /\ segment = NULL \/ segment.type \in SegmentKinds
        /\ fragment.lead.form = "plain" => segment = NULL
        /\ (Len(fragment.spans) = 0 /\ fragment.tail.kind # "free") => segment = NULL
        /\ (fragment.written = "text" /\ fragment.tail.kind # "free") => segment = NULL

C14_Witness ==
    /\ pc = "done"
    /\ fragment.written = "text"
    /\ Len(fragment.spans) = 1
    /\ fragment.tail.kind = "at"
    /\ fragment.rep = NoRepeat
    /\ LeadDuration(fragment).v > 0
    /\ segment = NULL

---------------------------------------------------------------------------
(* The workouts generateZWO is called with.                                 *)

\* A number of hundredths: 0.8 is Hundredths(80).
Hundredths(h) == Num(h * 10)

SteadyStateSegments ==
    { [type |-> "SteadyState", duration |-> Whole(600), power |-> Hundredths(80),
       cadence |-> NULL],
      [type |-> "SteadyState", duration |-> Whole(300), power |-> Num(125),
       cadence |-> Whole(85)] }

RampSegments ==
    { [type |-> "Ramp", duration |-> Whole(480), powerLow |-> Hundredths(60),
       powerHigh |-> Hundredths(85), cadence |-> Whole(0)] }

IntervalsTSegments ==
    {[type |-> "IntervalsT", repeat |-> Whole(2), onDuration |-> Whole(30),
      onPower |-> Hundredths(110), offDuration |-> Whole(30),
      offPower |-> Hundredths(105), onCadence |-> c[1], offCadence |-> c[2]] :
        c \in {<<Whole(110), Whole(85)>>, <<NULL, Whole(85)>>, <<Whole(110), Whole(0)>>}}

FreeRideSegments ==
    { [type |-> "FreeRide", duration |-> Whole(120), flatRoad |-> Whole(1)] }

\* Segments of a kind generateZWO has no case for, and one with no type.
UnknownSegments ==
    { [type |-> "Unknown", duration |-> Whole(120), cadence |-> Whole(70)],
      [type |-> "Unknown", cadence |-> Whole(70)],
      [type |-> "Unknown", duration |-> Whole(0), cadence |-> Whole(70)],
      [duration |-> Whole(120)] }

ZwoSegments ==
    SteadyStateSegments \cup RampSegments \cup IntervalsTSegments
    \cup FreeRideSegments \cup UnknownSegments

\* Every list of 0..MaxSegments segments, and the lists of one more segment
\* whose segments are all of no known kind.
SegmentLists ==
    UNION {[1..n -> ZwoSegments] : n \in 0..MaxSegments}
    \cup [1..MaxSegments + 1 -> UnknownSegments]

\* A plain name, and a name whose text holds "<Warmup ".
WorkoutNames ==
    { <<TextPiece("Test Workout")>>,
      <<TextPiece("Easy "), OpenTag("Warmup"), TextPiece("ride")>> }

\* The address of a workout page, and one with a query "?a=1&b=2".
Locations ==
    { <<TextPiece("https://whatsonzwift.com/workouts/test")>>,
      <<TextPiece("https://whatsonzwift.com/workouts/test?a=1"), RawPiece("&"),
        TextPiece("b=2")>> }

---------------------------------------------------------------------------
(* generateZWO applied to one workout, one step for each call of the        *)
(* forEach callback.                                                        *)

InitZWO ==
    /\ pc = "call"
    /\ workoutName \in WorkoutNames
    /\ segments \in SegmentLists
    /\ index = 0
    /\ xml = <<>>
    /\ href \in Locations
    /\ NoBrowser
    /\ phrase = NoPhrase
    /\ durationStr = UNDEFINED
    /\ duration = UNDEFINED
    /\ fragment = NoFragment
    /\ element = NoElement
    /\ segment = UNDEFINED

\* The template that begins the text.
BeginGenerateZWO ==
    /\ pc = "call"
    /\ phrase = NoPhrase
    /\ fragment = NoFragment
    /\ xml' = Header(workoutName, href)
    /\ pc' = "forEach"
    /\ UNCHANGED <<phrase, durationStr, duration, fragment, element, segment,
                   workoutName, segments, index, href, browser>>

\* The callback for the segment at index; a TypeError ends the call.
ForEachSegment ==
    /\ pc = "forEach"
    /\ index < Len(segments)
    /\ IF ToFixedThrows(segments[index + 1],
                        OriginalType(segments[index + 1], index = 0,
                                     index = Len(segments) - 1, Len(segments)))
       THEN pc' = "thrown" /\ UNCHANGED <<xml, index>>
       ELSE /\ xml' = WriteSegment(xml, segments[index + 1], index = 0,
                                   index = Len(segments) - 1, Len(segments))
            /\ index' = index + 1
            /\ pc' = "forEach"
    /\ segments' = SegmentsCloned(segments, index + 1,
                                  SegmentToProcess(segments[index + 1], index = 0,
                                                   index = Len(segments) - 1,
                                                   Len(segments)))
    /\ UNCHANGED <<phrase, durationStr, duration, fragment, element, segment,
                   workoutName, href, browser>>

\* The closing tags, and the return.
ReturnXml ==
    /\ pc = "forEach"
    /\ index = Len(segments)
    /\ xml' = Append(xml, TextPiece(FOOT))
    /\ pc' = "done"
    /\ UNCHANGED <<phrase, durationStr, duration, fragment, element, segment,
                   workoutName, segments, index, href, browser>>

NextZWO == BeginGenerateZWO \/ ForEachSegment \/ ReturnXml

SpecZWO == InitZWO /\ [][NextZWO]_vars

---------------------------------------------------------------------------
(* Properties of generateZWO, checked under SpecZWO.  The elements are read *)
(* back from the returned text: what stands between the header, which ends  *)
(* after the pieces of the name and of the address, and the closing tags.   *)

Body(text, name) == SubSeq(text, Len(name) + Len(href) + 4, Len(text) - 1)

\* The pieces of a body, cut after each ` />`.
RECURSIVE ElementsOf(_)
ElementsOf(body) ==
    IF body = <<>> \/ \A i \in 1..Len(body) : body[i] # CloseTag THEN <<>>
    ELSE <<SubSeq(body, 1, Min({i \in 1..Len(body) : body[i] = CloseTag}))>>
         \o ElementsOf(SubSeq(body, Min({i \in 1..Len(body) : body[i] = CloseTag}) + 1,
                              Len(body)))

\* The elements of the text returned.
Elements == ElementsOf(Body(xml, workoutName))

TagOf(e) == e[1].open
AttributesOf(e) == SubSeq(e, 2, Len(e) - 1)
NamesOf(e) == [i \in 1..Len(e) - 2 |-> e[i + 1].attr]
HasAttribute(e, name) == \E i \in 2..Len(e) - 1 : e[i].attr = name
ValueOf(e, name) == e[CHOOSE i \in 2..Len(e) - 1 : e[i].attr = name].value

IsKnown(seg) == HasType(seg) /\ seg.type \in KnownTypes
AllKnown(segs) == \A i \in 1..Len(segs) : IsKnown(segs[i])

\* The tag the claim gives the segment at position i (from 1) of n.
BoundaryTag(seg, i, n) ==
    IF i = 1 THEN "Warmup" ELSE IF i = n THEN "Cooldown" ELSE seg.type

\* The attribute that comes first for a kind, with the property it shows.
FirstAttribute(seg) ==
    IF seg.type = "IntervalsT" THEN Attribute("Repeat", IntToStr(seg.repeat.v \div Scale))
    ELSE Attribute("Duration", IntToStr(seg.duration.v \div Scale))

KindAttributes(kind) ==
    IF kind = "Ramp" THEN <<"Duration", "PowerLow", "PowerHigh">>
    ELSE IF kind = "SteadyState" THEN <<"Duration", "Power">>
    ELSE IF kind = "IntervalsT"
         THEN <<"Repeat", "OnDuration", "OnPower", "OffDuration", "OffPower">>
    ELSE <<"Duration", "FlatRoad">>

CadenceNames == {"Cadence", "OnCadence", "OffCadence"}

\* The names of an element that are no cadence.
RequiredNames(e) == SelectSeq(NamesOf(e), LAMBDA a : a \notin CadenceNames)

\* C16: the attributes written for a segment of one of the four kinds are
\* those of its own kind, whether it is tagged Warmup, Cooldown or with its
\* kind.
C16_AttributesByKind ==
    pc = "done" =>
        \A i \in 1..Len(segments) :
            IsKnown(segments[i])
                => RequiredNames(Elements[i]) = KindAttributes(segments[i].type)

C16_Witness ==
    /\ pc = "done"
    /\ Len(segments) = 3
    /\ AllKnown(segments)
    /\ segments[1].type = "Ramp"
    /\ segments[2].type = "Ramp"
    /\ segments[3].type = "IntervalsT"
    /\ TagOf(Elements[1]) = "Warmup"
    /\ RequiredNames(Elements[1]) = RequiredNames(Elements[2])
    /\ TagOf(Elements[3]) = "Cooldown"
    /\ RequiredNames(Elements[3]) = KindAttributes("IntervalsT")

\* The property is there and is a number other than 0.
PresentNonZero(seg, name) ==
    /\ name \in DOMAIN seg
    /\ seg[name] # NULL
    /\ seg[name] # Whole(0)

\* C17: for a segment of one of the four kinds a Cadence attribute is written
\* exactly when its cadence is present and not 0, with the cadence as value;
\* for IntervalsT the same holds of OnCadence and of OffCadence, each by
\* itself.
C17_CadenceWhenNonZero ==
    pc = "done" =>
        \A i \in 1..Len(segments) :
            IsKnown(segments[i]) =>
                \A c \in {<<"Cadence", "cadence">>, <<"OnCadence", "onCadence">>,
                          <<"OffCadence", "offCadence">>} :
                    /\ HasAttribute(Elements[i], c[1]) <=> PresentNonZero(segments[i], c[2])
                    /\ HasAttribute(Elements[i], c[1])
                        => ValueOf(Elements[i], c[1])
                             = IntToStr(segments[i][c[2]].v \div Scale)

C17_Witness ==
    /\ pc = "done"
    /\ Len(segments) = 2
    /\ AllKnown(segments)
    /\ segments[1].type = "Ramp"
    /\ segments[1].cadence = Whole(0)
    /\ ~HasAttribute(Elements[1], "Cadence")
    /\ segments[2].type = "IntervalsT"
    /\ segments[2].onCadence = NULL
    /\ ~HasAttribute(Elements[2], "OnCadence")
    /\ HasAttribute(Elements[2], "OffCadence")

PowerNames == {"Power", "PowerLow", "PowerHigh", "OnPower", "OffPower"}

\* Digits, a point, two digits.
TwoDecimals(value) ==
    /\ Len(value) >= 4
    /\ value[Len(value) - 2] = "."
    /\ \A i \in 1..Len(value) : i # Len(value) - 2 => IsDigit(value[i])

\* C18: every power attribute written has exactly two digits after the
\* point: 0.6 is written 0.60, 1.05 is written 1.05, 1.1 is written 1.10.
C18_PowerTwoDecimals ==
    pc = "done" =>
        \A i \in 1..Len(Elements) :
            /\ \A a \in PowerNames :
                HasAttribute(Elements[i], a) => TwoDecimals(ValueOf(Elements[i], a))
            /\ (IsKnown(segments[i]) /\ segments[i].type = "Ramp"
                    /\ segments[i].powerLow = Hundredths(60))
                => ValueOf(Elements[i], "PowerLow") = <<"0", ".", "6", "0">>
            /\ (IsKnown(segments[i]) /\ segments[i].type = "IntervalsT"
                    /\ segments[i].onPower = Hundredths(110)
                    /\ segments[i].offPower = Hundredths(105))
                => /\ ValueOf(Elements[i], "OnPower") = <<"1", ".", "1", "0">>
                   /\ ValueOf(Elements[i], "OffPower") = <<"1", ".", "0", "5">>

C18_Witness ==
    /\ pc = "done"
    /\ Len(segments) = 2
    /\ AllKnown(segments)
    /\ segments[1].type = "Ramp"
    /\ ValueOf(Elements[1], "PowerLow") = <<"0", ".", "6", "0">>
    /\ segments[2].type = "IntervalsT"
    /\ ValueOf(Elements[2], "OnPower") = <<"1", ".", "1", "0">>

\* The attributes claimed for a segment of no known kind.
UnknownWithDuration(seg) ==
    <<Attribute("Duration", IntToStr(seg.duration.v \div Scale)),
      Attribute("Power", <<"0", ".", "5", "0">>)>>
    \o (IF PresentNonZero(seg, "cadence")
        THEN <<Attribute("Cadence", IntToStr(seg.cadence.v \div Scale))>> ELSE <<>>)
UnknownNoDuration ==
    <<Attribute("Duration", <<"6", "0">>), Attribute("Power", <<"0", ".", "5", "0">>)>>

\* C19 as stated: for a segment of no known kind generateZWO returns, and
\* writes Duration=<its duration>, Power="0.50" and its Cadence when it has a
\* duration, and Duration="60" Power="0.50" when it has none.
C19_UnknownKindDuration ==
    pc = "done" =>
        /\ Len(Elements) = Len(segments)
        /\ \A i \in 1..Len(segments) :
            ~IsKnown(segments[i]) =>
                AttributesOf(Elements[i])
                    = IF "duration" \in DOMAIN segments[i]
                      THEN UnknownWithDuration(segments[i])
                      ELSE UnknownNoDuration

\* C19 amended: the same with "has a duration" read as "has a duration that
\* is not 0"; a duration of 0 gives Duration="60" Power="0.50" too.
C19_UnknownKindNonZeroDuration ==
    pc = "done" =>
        /\ Len(Elements) = Len(segments)
        /\ \A i \in 1..Len(segments) :
            ~IsKnown(segments[i]) =>
                AttributesOf(Elements[i])
                    = IF PresentNonZero(segments[i], "duration")
                      THEN UnknownWithDuration(segments[i])
                      ELSE UnknownNoDuration

C19_Witness ==
    /\ pc = "done"
    /\ Len(segments) = 3
    /\ \A i \in 1..3 : ~IsKnown(segments[i])
    /\ PresentNonZero(segments[1], "duration")
    /\ HasAttribute(Elements[1], "Cadence")
    /\ "duration" \notin DOMAIN segments[2]
    /\ AttributesOf(Elements[2]) = UnknownNoDuration
    /\ ~HasType(segments[3])

\* C20: in every list that is not empty the element of index 0 is tagged
\* Warmup, and in every list of more than one segment the element of the last
\* index is tagged Cooldown, whatever the kinds, known or not, with or
\* without a duration.
C20_BoundaryTagsAnyKind ==
    (pc = "done" /\ Len(segments) > 0) =>
        /\ TagOf(Elements[1]) = "Warmup"
        /\ Len(segments) > 1 => TagOf(Elements[Len(segments)]) = "Cooldown"

\* What generateZWO wrote for the name and for the address: the pieces
\* between "<name>" and "</name>", and those before "</description>".
NameWritten == SubSeq(xml, 2, Len(workoutName) + 1)
AddressWritten == SubSeq(xml, Len(workoutName) + 3, Len(workoutName) + Len(href) + 2)

\* A piece of plain text: no "<", ">" or "&" stands in it as it is.
IsEscaped(piece) == "text" \in DOMAIN piece

\* C21: in the document returned, every character with XML meaning of the
\* workout name and of the source address is escaped: the name and the
\* description elements hold text only, no "<Tag " and no "&" as written.
C21_NameAndAddressEscaped ==
    pc = "done" =>
        /\ \A i \in 1..Len(NameWritten) : IsEscaped(NameWritten[i])
        /\ \A i \in 1..Len(AddressWritten) : IsEscaped(AddressWritten[i])

\* The fragment begins with a duration phrase that parses to 0: "0min",
\* "0sec", "0min 0sec".
ZeroLead(f) == f.lead.form # "plain" /\ LeadDuration(f).v = 0

\* The off phase of the fragment has a duration phrase that parses to 0.
ZeroOff(f) ==
    /\ f.rest # NoRest
    /\ f.rest.off # NoPhrase
    /\ parseDuration(PhraseArg(f.rest.off)).v = 0

\* C22: every record returned has strictly positive durations: duration for
\* FreeRide, Ramp and SteadyState, onDuration and offDuration for IntervalsT.
\* A fragment whose leading duration parses to 0 matches the pattern of its
\* rule and no rule returns a record for it; the same holds of an interval
\* whose off duration parses to 0.
C22_DurationsPositive ==
    pc = "done" =>
        /\ segment # NULL =>
            IF segment.type = "IntervalsT"
            THEN segment.onDuration.v > 0 /\ segment.offDuration.v > 0
            ELSE segment.duration.v > 0
        /\ ZeroLead(fragment) => segment = NULL
        /\ (fragment.rep # NoRepeat /\ ZeroOff(fragment)) => segment = NULL

\* "0min free ride": the FreeRide pattern matches, the duration is 0, and
\* nothing is returned.
C22_Witness ==
    /\ pc = "done"
    /\ ZeroLead(fragment)
    /\ fragment.tail.kind = "free"
    /\ FreeRideMatch(Trim(element.text)) # <<>>
    /\ Len(element.spans) = 1
    /\ segment = NULL

\* C23: every record returned has powers and a repeat count above 0: power
\* for SteadyState, powerLow and powerHigh for Ramp, repeat, onPower and
\* offPower for IntervalsT, whatever annotation values and repeat count are
\* written ("0", "-25", "0x").
C23_PowersAndRepeatPositive ==
    (pc = "done" /\ segment # NULL) =>
        /\ segment.type = "SteadyState" => segment.power.v > 0
        /\ segment.type = "Ramp"
            => segment.powerLow.v > 0 /\ segment.powerHigh.v > 0
        /\ segment.type = "IntervalsT"
            => /\ segment.repeat.v > 0
               /\ segment.onPower.v > 0
               /\ segment.offPower.v > 0

\* C24: generateZWO leaves its input unchanged: no step of the call changes
\* the type or the fields of a segment of the list, none gets an originalType,
\* and serializing the list as the call left it gives the same document.
C24_InputUnchanged ==
    [][/\ segments' = segments
       /\ pc' = "done" => xml' = generateZWO(workoutName', segments', href')]_vars

\* A returned document with a Warmup and a Cooldown element whose segments
\* still have their kinds.
C24_Witness ==
    /\ pc = "done"
    /\ Len(segments) = 3
    /\ AllKnown(segments)
    /\ TagOf(Elements[1]) = "Warmup"
    /\ segments[1].type = "SteadyState"
    /\ "originalType" \notin DOMAIN segments[1]
    /\ TagOf(Elements[3]) = "Cooldown"
    /\ segments[3].type = "IntervalsT"
    /\ xml = generateZWO(workoutName, segments, href)

\* The pieces of the header: the name, the address, and three stretches of
\* text around them.
HeaderLen == Len(workoutName) + Len(href) + 3

\* C29: a callback of generateZWO leaves the elements written before it as
\* they are: the text from the end of the header to the end of the text is,
\* after the callback, a prefix of the text.
C29_EarlierElementsKept ==
    [][(pc = "forEach" /\ pc' = "forEach")
        => SubSeq(xml', HeaderLen + 1, Len(xml)) = SubSeq(xml, HeaderLen + 1, Len(xml))]_vars

\* The attribute names of a text.
AttributeNames(text) ==
    {text[i].attr : i \in {j \in 1..Len(text) : "attr" \in DOMAIN text[j]}}

\* The document for a workout of the one segment seg.
SerializedAlone(seg) == generateZWO(<<TextPiece("Test Workout")>>, <<seg>>, <<>>)

\* C30: a FreeRide record returned by parseSegment has the fields type,
\* duration and flatRoad = 1 and no other, also when the text holds "N rpm";
\* the element generateZWO writes for it has Duration and FlatRoad and no
\* Cadence.
C30_FreeRideCarriesNoCadence ==
    (pc = "done" /\ segment # NULL /\ segment.type = "FreeRide") =>
        /\ DOMAIN segment = {"type", "duration", "flatRoad"}
        /\ segment.flatRoad = Whole(1)
        /\ AttributeNames(SerializedAlone(segment)) = {"Duration", "FlatRoad"}

\* "2min Free Ride @ 110rpm" gives a FreeRide record.
C30_Witness ==
    /\ pc = "done"
    /\ fragment.tail = [kind |-> "free", cad |-> <<110>>]
    /\ TextCadence(Trim(element.text)) = Whole(110)
    /\ segment # NULL
    /\ segment.type = "FreeRide"
    /\ segment.duration = Whole(120)

---------------------------------------------------------------------------
(* The page: addDownloadButton, the click handler of a download button and  *)
(* the timeout it sets.  The script runs one handler at a time: pc is       *)
(* "idle" between them, and inside the click handler it is "query" (button  *)
(* set to Processing), "classify" (in the forEach over the elements), "try" *)
(* (before the try block) or "finally" (before the setTimeout).             *)

\* A page holds 0..MaxFragments elements of class textbar.
MaxFragments == 3

\* addDownloadButton is called up to MaxCalls times on a page.
MaxCalls == 2

ENTER_FTP == <<"E", "N", "T", "E", "R", " ", "F", "T", "P">>
DOWNLOAD == "Download .zwo"
PROCESSING == "Processing..."
DEFAULT_NAME == <<TextPiece("Zwift Workout")>>
BLANK == TextPiece(" ")

\* The elements of a page: "2min @ 80%" with one annotation, "2min Free Ride
\* @ 110rpm", and "invalid string", which parses to null.
PageFragments ==
    { [rep |-> NoRepeat, lead |-> OnePhrase(WholeNumeral(MaxCount), MIN),
       tail |-> [kind |-> "at", cad |-> <<>>], rest |-> NoRest,
       spans |-> <<25>>, written |-> "digits"],
      [rep |-> NoRepeat, lead |-> OnePhrase(WholeNumeral(MaxCount), MIN),
       tail |-> [kind |-> "free", cad |-> <<110>>], rest |-> NoRest,
       spans |-> <<>>, written |-> "digits"] }
    \cup {[rep |-> NoRepeat, lead |-> l, tail |-> [kind |-> "none", cad |-> <<>>],
           rest |-> NoRest, spans |-> <<>>, written |-> "digits"] :
            l \in {p \in PlainLeads : Len(p.text) > 0}}

PageElements == {FragmentElement(f) : f \in PageFragments}

Textbars == UNION {[1..n -> PageElements] : n \in 0..MaxFragments}

\* parseSegment(el) for the elements of the pages.
Parsed == [el \in PageElements |-> parseSegment(el)]

\* The innerText of h4.flaticon-bike, when the page has one, as <<text>>.
Titles == { <<>>, <<<<BLANK, TextPiece("Test Workout"), BLANK>>>> }

\* container: article > section > div > div is found; reference: it holds
\* button[name="update-ftp"]; ftp: the innerText of that button.
Pages ==
    {[container |-> c[1], reference |-> c[2], ftp |-> t, title |-> h, textbars |-> e] :
        c \in {<<FALSE, FALSE>>, <<TRUE, FALSE>>, <<TRUE, TRUE>>},
        t \in {ENTER_FTP, <<"F", "T", "P", ":", " ", "2", "5", "0">>},
        h \in Titles, e \in Textbars}

\* String.prototype.trim on the pieces of a text.
RECURSIVE TrimPieces(_)
TrimPieces(t) ==
    IF t = <<>> THEN t
    ELSE IF Head(t) = BLANK THEN TrimPieces(Tail(t))
    ELSE IF t[Len(t)] = BLANK THEN TrimPieces(SubSeq(t, 1, Len(t) - 1))
    ELSE t

\* querySelector("h4.flaticon-bike")?.innerText?.trim() || "Zwift Workout"
NameOrDefault(trimmed) == IF trimmed = <<>> THEN DEFAULT_NAME ELSE trimmed
getWorkoutName(p) ==
    IF p.title = <<>> THEN DEFAULT_NAME ELSE NameOrDefault(TrimPieces(p.title[1]))

\* The button addDownloadButton creates: textContent, type and style are set,
\* a class is not.
NewButton == [textContent |-> DOWNLOAD, disabled |-> FALSE, className |-> ""]

\* workoutListDiv.querySelector('.zwo-download-button')
AlreadyExists(bs) == \E i \in 1..Len(bs) : bs[i].className = "zwo-download-button"

\* The buttons of the container after one call of addDownloadButton.
addDownloadButton(p, bs) ==
    IF ~p.container \/ ~p.reference THEN bs
    ELSE IF AlreadyExists(bs) THEN bs
    ELSE Append(bs, NewButton)

\* textContent = 'Processing...'; disabled = true
Processing(button) == [button EXCEPT !.textContent = PROCESSING, !.disabled = TRUE]

\* textContent = 'Download .zwo'; disabled = false
StillDisabled(button) == [button EXCEPT !.textContent = DOWNLOAD]
Restored(button) == [button EXCEPT !.textContent = DOWNLOAD, !.disabled = FALSE]

\* What the handler calls.
Clicked(b) == [call |-> "click", button |-> b]
ReferenceClick == [call |-> "update-ftp.click"]
Alert(text) == [call |-> "alert", text |-> text]
GenerateCall(name, list) == [call |-> "generateZWO", name |-> name, list |-> list]
DownloadCall == [call |-> "downloadFile"]

NONE_FOUND == "Could not find any workout segments on the page."
NONE_PARSED == "Failed to parse any workout segments. Cannot generate ZWO file."
SKIPPED == "Warning: segment(s) could not be fully parsed and were skipped."
FAILED == "An error occurred while creating the ZWO file."
NO_LINK == "Error creating download link."

\* The body of the forEach over the elements: the result is pushed, or the
\* element is counted when the result is null or parseSegment throws.
IsSkipped(result) == result = NULL \/ result = TypeError
PushedAlways(parsedSegments, result) == Append(parsedSegments, result)
Pushed(parsedSegments, result) ==
    IF IsSkipped(result) THEN parsedSegments ELSE Append(parsedSegments, result)
Counted(warnings, result) == IF IsSkipped(result) THEN warnings + 1 ELSE warnings

\* if (parsedSegments.length === 0)
NeverAborts(parsedSegments) == FALSE
NoneParsed(parsedSegments) == Len(parsedSegments) = 0

\* if (parseWarnings > 0) alert(...)
SkipWarning(warnings) == IF warnings > 0 THEN <<Alert(SKIPPED)>> ELSE <<>>

\* downloadFile: the download is triggered, or its own catch shows an alert.
DownloadFile(linkFails) ==
    IF linkFails THEN <<DownloadCall, Alert(NO_LINK)>> ELSE <<DownloadCall>>

\* The try block: generateZWO, the formatting of its text by DOMParser and
\* XMLSerializer, downloadFile; a throw of generateZWO or of the formatting
\* goes to the catch, which shows an alert.
TryBlock(name, list, zwoContent, formatThrows, linkFails) ==
    <<GenerateCall(name, list)>>
    \o (IF zwoContent = Thrown \/ formatThrows THEN <<Alert(FAILED)>>
        ELSE DownloadFile(linkFails))

\* The button whose handler runs.
Running == calls[1].button

InitPage ==
    /\ pc = "idle"
    /\ page \in Pages
    /\ href \in Locations
    /\ buttons = <<>>
    /\ parseWarnings = 0
    /\ calls = <<>>
    /\ timers = {}
    /\ workoutName = <<>>
    /\ segments = <<>>
    /\ index = 0
    /\ xml = <<>>
    /\ phrase = NoPhrase
    /\ durationStr = UNDEFINED
    /\ duration = UNDEFINED
    /\ fragment = NoFragment
    /\ element = NoElement
    /\ segment = UNDEFINED

\* One call of addDownloadButton.
AddDownloadButton ==
    /\ pc = "idle"
    /\ page # NoPage
    /\ Len(buttons) < MaxCalls
    /\ buttons' = addDownloadButton(page, buttons)
    /\ UNCHANGED <<pc, page, href, parseWarnings, calls, timers, workoutName,
                   segments, index, xml>>
    /\ UNCHANGED <<phrase, durationStr, duration, fragment, element, segment>>

\* A click on button b (a disabled button gets no click): the handler up to
\* its first return or to the query of the elements.
Click(b) ==
    /\ pc = "idle"
    /\ ~buttons[b].disabled
    /\ IF Includes(page.ftp, ENTER_FTP)
       THEN /\ calls' = <<Clicked(b), ReferenceClick>>
            /\ UNCHANGED <<pc, buttons>>
       ELSE /\ calls' = <<Clicked(b)>>
            /\ buttons' = [buttons EXCEPT ![b] = Processing(buttons[b])]
            /\ pc' = "query"
    /\ UNCHANGED <<page, href, parseWarnings, timers, workoutName, segments,
                   index, xml>>
    /\ UNCHANGED <<phrase, durationStr, duration, fragment, element, segment>>

\* querySelectorAll('.textbar'): no element ends the handler.
QuerySegments ==
    /\ pc = "query"
    /\ IF Len(page.textbars) = 0
       THEN /\ calls' = Append(calls, Alert(NONE_FOUND))
            /\ buttons' = [buttons EXCEPT ![Running] = Restored(buttons[Running])]
            /\ pc' = "idle"
            /\ UNCHANGED <<segments, parseWarnings, index>>
       ELSE /\ segments' = <<>>
            /\ parseWarnings' = 0
            /\ index' = 0
            /\ pc' = "classify"
            /\ UNCHANGED <<calls, buttons>>
    /\ UNCHANGED <<page, href, timers, workoutName, xml>>
    /\ UNCHANGED <<phrase, durationStr, duration, fragment, element, segment>>

\* The callback of segmentElements.forEach for the element at index.
ClassifyElement ==
    /\ pc = "classify"
    /\ index < Len(page.textbars)
    /\ segments' = Pushed(segments, Parsed[page.textbars[index + 1]])
    /\ parseWarnings' = Counted(parseWarnings, Parsed[page.textbars[index + 1]])
    /\ index' = index + 1
    /\ UNCHANGED <<pc, page, href, buttons, calls, timers, workoutName, xml>>
    /\ UNCHANGED <<phrase, durationStr, duration, fragment, element, segment>>

\* After the forEach: no parsed segment ends the handler; else the warning,
\* and the name.
CheckParsed ==
    /\ pc = "classify"
    /\ index = Len(page.textbars)
    /\ IF NoneParsed(segments)
       THEN /\ calls' = Append(calls, Alert(NONE_PARSED))
            /\ buttons' = [buttons EXCEPT ![Running] = Restored(buttons[Running])]
            /\ pc' = "idle"
            /\ UNCHANGED workoutName
       ELSE /\ calls' = calls \o SkipWarning(parseWarnings)
            /\ workoutName' = getWorkoutName(page)
            /\ pc' = "try"
            /\ UNCHANGED buttons
    /\ UNCHANGED <<page, href, parseWarnings, timers, segments, index, xml>>
    /\ UNCHANGED <<phrase, durationStr, duration, fragment, element, segment>>

\* The try block with its catch.  formatThrows: DOMParser or XMLSerializer
\* throws; linkFails: downloadFile catches an error of its own.
TryExport ==
    /\ pc = "try"
    /\ \E formatThrows \in BOOLEAN, linkFails \in BOOLEAN :
        /\ xml' = generateZWO(workoutName, segments, href)
        /\ calls' = calls \o TryBlock(workoutName, segments,
                                      generateZWO(workoutName, segments, href),
                                      formatThrows, linkFails)
    /\ pc' = "finally"
    /\ UNCHANGED <<page, href, buttons, parseWarnings, timers, workoutName,
                   segments, index>>
    /\ UNCHANGED <<phrase, durationStr, duration, fragment, element, segment>>

\* finally: setTimeout(..., 500), and the handler returns.
Finally ==
    /\ pc = "finally"
    /\ timers' = timers \cup {Running}
    /\ pc' = "idle"
    /\ UNCHANGED <<page, href, buttons, parseWarnings, calls, workoutName,
                   segments, index, xml>>
    /\ UNCHANGED <<phrase, durationStr, duration, fragment, element, segment>>

\* The callback of the timeout set for button b.
TimerFires(b) ==
    /\ pc = "idle"
    /\ b \in timers
    /\ buttons' = [buttons EXCEPT ![b] = Restored(buttons[b])]
    /\ timers' = timers \ {b}
    /\ UNCHANGED <<pc, page, href, parseWarnings, calls, workoutName, segments,
                   index, xml>>
    /\ UNCHANGED <<phrase, durationStr, duration, fragment, element, segment>>

ClickSome == \E b \in 1..Len(buttons) : Click(b)
TimerSome == \E b \in 1..MaxCalls : TimerFires(b)

NextPage ==
    \/ AddDownloadButton
    \/ ClickSome
    \/ QuerySegments
    \/ ClassifyElement
    \/ CheckParsed
    \/ TryExport
    \/ Finally
    \/ TimerSome

SpecPage == InitPage /\ [][NextPage]_vars

\* The pages on which a button is added, with fewer than MaxFragments
\* elements, a title and a plain address.
InitPageFair ==
    /\ InitPage
    /\ page.reference
    /\ page.title # <<>>
    /\ Len(page.textbars) < MaxFragments
    /\ \A i \in 1..Len(href) : "text" \in DOMAIN href[i]

\* A handler that has begun runs to its end, and a timeout that was set
\* fires.
SpecPageFair ==
    /\ InitPageFair
    /\ [][NextPage]_vars
    /\ WF_vars(QuerySegments \/ ClassifyElement \/ CheckParsed \/ TryExport \/ Finally)
    /\ \A b \in 1..MaxCalls : SF_vars(TimerFires(b))

---------------------------------------------------------------------------
(* Properties of the page, checked under SpecPage.                          *)

\* What parseSegment gives for the first n elements of the page, in order,
\* and those of them that are records.
Results(n) == [i \in 1..n |-> parseSegment(page.textbars[i])]
Records(n) == SelectSeq(Results(n), LAMBDA r : r # NULL)

HasCall(c) == \E i \in 1..Len(calls) : calls[i] = c
CallsOf(name) == {i \in 1..Len(calls) : calls[i].call = name}

\* The running or last handler has gone through the whole forEach.
Classified ==
    \/ pc \in {"try", "finally"}
    \/ pc = "idle" /\ calls # <<>> /\ ~HasCall(ReferenceClick) /\ ~HasCall(Alert(NONE_FOUND))

\* The list and the counter hold the records and the number of nulls of the
\* elements gone through, and generateZWO is called with the records of all
\* elements only.
DroppedAndCounted ==
    /\ pc = "classify" =>
        /\ segments = Records(index)
        /\ parseWarnings = index - Len(Records(index))
    /\ Classified =>
        /\ segments = Records(Len(page.textbars))
        /\ parseWarnings = Len(page.textbars) - Len(segments)
    /\ \A i \in CallsOf("generateZWO") :
        /\ calls[i].list = Records(Len(page.textbars))
        /\ \A k \in 1..Len(calls[i].list) : calls[i].list[k] # NULL

\* C25 as stated: the list passed to generateZWO holds the non-null results
\* of parseSegment in element order, an element that gives null is dropped and
\* counted, and the skipped-segments warning is shown exactly when the count
\* is above 0.
C25_DroppedCountedWarned ==
    /\ DroppedAndCounted
    /\ Classified => (HasCall(Alert(SKIPPED)) <=> parseWarnings > 0)

\* C25 amended: the warning is shown exactly when the count is above 0 and
\* some element gave a record; when none did, the other alert is shown and
\* generateZWO is not called.
C25_WarnedWhenSomeParsed ==
    /\ DroppedAndCounted
    /\ Classified =>
        /\ HasCall(Alert(SKIPPED)) <=> (parseWarnings > 0 /\ segments # <<>>)
        /\ segments = <<>> => (HasCall(Alert(NONE_PARSED)) /\ CallsOf("generateZWO") = {})

\* Three elements, the second gives null: generateZWO got the two records
\* and the warning was shown.
C25_Witness ==
    /\ Len(page.textbars) = 3
    /\ IsKind(parseSegment(page.textbars[1]), "FreeRide")
    /\ parseSegment(page.textbars[2]) = NULL
    /\ IsKind(parseSegment(page.textbars[3]), "SteadyState")
    /\ \E i \in CallsOf("generateZWO") :
        /\ Len(calls[i].list) = 2
        /\ calls[i].list[1].type = "FreeRide"
        /\ calls[i].list[2].type = "SteadyState"
    /\ parseWarnings = 1
    /\ HasCall(Alert(SKIPPED))

\* C26: when the page has no element, or no element gives a record, neither
\* generateZWO nor downloadFile is called; else downloadFile is called at
\* most once in a click, after every element was gone through and after
\* generateZWO returned the document.
C26_AbortOrOneDownload ==
    /\ Records(Len(page.textbars)) = <<>>
        => CallsOf("generateZWO") = {} /\ CallsOf("downloadFile") = {}
    /\ Cardinality(CallsOf("downloadFile")) <= 1
    /\ \A d \in CallsOf("downloadFile") :
        /\ index = Len(page.textbars)
        /\ xml # Thrown
        /\ \E g \in CallsOf("generateZWO") :
            /\ g < d
            /\ xml = generateZWO(calls[g].name, calls[g].list, href)

\* A click that ended with a download, on a page where an element was
\* skipped.
C26_Witness ==
    /\ pc = "idle"
    /\ Len(page.textbars) = 2
    /\ parseWarnings = 1
    /\ Cardinality(CallsOf("generateZWO")) = 1
    /\ Cardinality(CallsOf("downloadFile")) = 1

\* Button b is in the disabled "Processing..." state, and in the enabled
\* "Download .zwo" state.
IsProcessing(b) ==
    b <= Len(buttons) /\ buttons[b].disabled /\ buttons[b].textContent = PROCESSING
IsReady(b) ==
    b <= Len(buttons) /\ ~buttons[b].disabled /\ buttons[b].textContent = DOWNLOAD

\* C27: a button that a click has put in the disabled "Processing..." state
\* comes back to the enabled "Download .zwo" state, whatever way the handler
\* takes: no element found, no element parsed, a download, an error caught.
C27_ButtonReturns ==
    \A b \in 1..MaxCalls : IsProcessing(b) ~> IsReady(b)

\* The handler has ended through its catch, and the button waits for the
\* timeout.
C27_Witness ==
    /\ pc = "idle"
    /\ HasCall(Alert(FAILED))
    /\ IsProcessing(calls[1].button)
    /\ calls[1].button \in timers

\* C28: after any number of calls of addDownloadButton the workout container
\* holds at most one download button.
C28_AtMostOneButton == Len(buttons) <= 1

=============================================================================
